---- MODULE Spec2Model ----
(***************************************************************************)
(* Inventory Engine (inventory_manager.py, InventoryManagerV6) and Order   *)
(* State Machine (order_manager.py, OrderManagerV6) over the persistent    *)
(* store (db.py, DatabaseV6).                                              *)
(*                                                                         *)
(* A coroutine is cut where another coroutine can observe or change what   *)
(* it works on: at every lock acquisition, and between the read and the    *)
(* write of a stock quantity.  The store calls made while a lock is held   *)
(* and nothing else can touch the locked data are one step with the        *)
(* synchronous code around them.  Quantities are whole units.              *)
(***************************************************************************)
EXTENDS Integers, Sequences, FiniteSets, TLC

\* ---------------------------------------------------------------- bounds
MaxStock == 2      \* initial stock of a product is in 0..MaxStock
MaxQty == 1        \* a line item or a manual change moves 1..MaxQty units
MaxItems == 2      \* line items per order / per batch
MaxTime == 24      \* the clock runs from hour 0 to hour MaxTime
MaxCycles == 2     \* polling cycles of the scheduler
MaxCartQty == 2    \* quantities passed to add_item: up to MaxCartQty
MaxLoops == 3      \* _check_loop tasks that start() creates

\* order_manager.py:95 ttl_hours
ttl_hours == 24

\* remainder_system.py:84 self.reminder_intervals (hours after creation)
reminder_intervals == <<2, 6, 24>>

\* the hours at which the clock is read: those where an order crosses a
\* reminder offset or its expiry time, and every hour after the expiry
Instants ==
  {reminder_intervals[i] : i \in DOMAIN reminder_intervals}
    \cup {ttl_hours} \cup {h \in 0..MaxTime : h > ttl_hours}

Products == {"p1", "p2"}
Orders == {"o1", "o2"}
Merchants == {"m1", "m2"}
Owner == "m1"
Callers == {1, 2}
Slots == 1..MaxItems

Max(a, b) == IF a >= b THEN a ELSE b
Abs(a) == IF a < 0 THEN -a ELSE a

\* OrderStatus enum, order_manager.py:26-34
PENDING == "pending"
ACCEPTED == "accepted"
DECLINED == "declined"
COMPLETED == "completed"
CANCELLED == "cancelled"
EXPIRED == "expired"
REVIEW == "review"
OrderStatus == {PENDING, ACCEPTED, DECLINED, COMPLETED, CANCELLED, EXPIRED, REVIEW}

Item == [product_id : Products, quantity : 1..MaxQty]
ItemSeqs == UNION {[1..n -> Item] : n \in 1..MaxItems}

\* A cart holds one line per product (CartManager.add_item replaces the
\* quantity of a product already in the cart, cart_manager.py:216-239), and
\* an order takes its items from the cart (ai_pipeline.py:1065-1068).
CartItemSeqs ==
  {its \in ItemSeqs :
     \A i, j \in DOMAIN its : i # j => its[i].product_id # its[j].product_id}

VARIABLES
  stock,            \* db.products: stock_qty of each product of the merchant
  stock_movements,  \* db.stock_movements collection
  orders,           \* db.orders: one document per order id
  locks,            \* InventoryManagerV6._locks: holder of each product lock
  order_lock,       \* OrderManagerV6._order_lock: holder, 0 when free
  now,              \* the clock
  proc,             \* the caller coroutines: operation, position, locals
  tasks,            \* update_quantity / adjust_stock_admin invocations of a caller
  sched,            \* ReminderSystem: _running, the _check_loop task, stop()
  jobs,             \* _process_single_order tasks of the current cycle
  outbox,           \* WhatsApp messages sent, and notification tasks created
  detached,         \* tasks started with asyncio.create_task and not awaited
  lifecycle,        \* ReminderSystem: _running, _task, every loop task, stop() calls
  carts,            \* CartManager._carts: the cached cart of the conversation
  db_carts,         \* db.carts: the persisted cart of the conversation
  last_add          \* per product, the last add_item that reached the cart

sched_vars == <<sched, jobs, outbox, detached, lifecycle>>

cart_vars == <<carts, db_carts, last_add>>

vars == <<stock, stock_movements, orders, locks, order_lock, now, proc, tasks,
          sched, jobs, outbox, detached, lifecycle, carts, db_carts, last_add>>

\* ------------------------------------------------------------ documents
NewOrder_deducted(its) ==
  [merchant_id |-> Owner, items |-> its, status |-> PENDING,
   inventory_deducted |-> TRUE, timeline |-> <<PENDING>>,
   expiry_time |-> ttl_hours, created_at |-> 0, sent_reminders |-> {},
   approved_by_admin |-> "-"]

\* create_order_from_cart, order_manager.py:110-135
NewOrder(its) ==
  [merchant_id |-> Owner, items |-> its, status |-> PENDING,
   inventory_deducted |-> FALSE, timeline |-> <<PENDING>>,
   expiry_time |-> ttl_hours, created_at |-> 0, sent_reminders |-> {},
   approved_by_admin |-> "-"]

NoOrder ==
  [merchant_id |-> "-", items |-> <<>>, status |-> "none",
   inventory_deducted |-> FALSE, timeline |-> <<>>, expiry_time |-> 0,
   created_at |-> 0, sent_reminders |-> {}, approved_by_admin |-> "-"]

\* db.get_order, db.py:557-567
get_order(order_id) == orders[order_id]

update_order_no_push(order_id, new_status, deducted) ==
  [orders EXCEPT ![order_id] =
     [@ EXCEPT !.status = new_status, !.inventory_deducted = deducted]]

\* OrderManagerV6.update_order + db.update_order with a $set and a $push of
\* one timeline entry in one write, order_manager.py:63-80, db.py:569-602
update_order(order_id, new_status, deducted) ==
  [orders EXCEPT ![order_id] =
     [@ EXCEPT !.status = new_status,
               !.inventory_deducted = deducted,
               !.timeline = Append(@, new_status)]]

\* ------------------------------------------------------- store: products
update_product_stock_wrong(s, product_id, new_stock) ==
  [s EXCEPT ![product_id] = s[product_id] - new_stock]

\* db.update_product_stock: $set stock_qty, db.py:757-773
update_product_stock(s, product_id, new_stock) ==
  [s EXCEPT ![product_id] = new_stock]

\* db.update_product_stock refuses a negative value, db.py:759
StockRejected(new_stock) == new_stock < 0

\* inventory_manager.py:109
new_stock_of(current_stock, quantity_change) == current_stock + quantity_change

\* inventory_manager.py:110
final_stock_of(current_stock, quantity_change) ==
  Max(new_stock_of(current_stock, quantity_change), 0)

Insufficient_never(current_stock, quantity_change) == FALSE

\* inventory_manager.py:113
Insufficient(current_stock, quantity_change) ==
  quantity_change < 0 /\ new_stock_of(current_stock, quantity_change) < 0

\* inventory_manager.py:181
final_new_stock_of(new_stock) == Max(new_stock, 0)

\* _log_stock_movement, inventory_manager.py:509-532.  Line 529 awaits the
\* result of db.get_collection, which is a plain function returning a
\* collection handle (db.py:211-217); the await raises TypeError, the
\* except clause at line 531 swallows it and insert_one is never reached.
get_collection_is_awaitable == FALSE

log_stock_movement(log, movement) ==
  IF get_collection_is_awaitable THEN Append(log, movement) ELSE log

\* 4. LOG ADMIN ACTION, inventory_manager.py:200-209: the audit record is
\* written only if the db layer has a method record_admin_action; the
\* method of the db layer is called log_admin_action (db.py:382-402), so
\* the branch at line 209 is taken and the audit is skipped.
db_has_record_admin_action == FALSE

\* number of admin-audit records the call appends
record_admin_action == IF db_has_record_admin_action THEN 1 ELSE 0

\* ------------------------------------------------------------ coroutines
NoTask ==
  [pc |-> "idle", product_id |-> "-", quantity_change |-> 0, new_stock |-> 0,
   current_stock |-> 0, reason |-> "-", ret |-> "none"]

NoTasks == [i \in Slots |-> NoTask]

ZeroNet == [x \in Products |-> 0]

IdleProc ==
  [op |-> "none", pc |-> "idle", order_id |-> "-", merchant_id |-> "-",
   items |-> <<>>, k |-> 0, order |-> NoOrder, checked_at |-> 0,
   successful |-> <<>>, results |-> <<>>, rollback |-> {},
   inventory_returned |-> FALSE, ret |-> "none", msg |-> "-",
   current |-> "none", committed |-> FALSE, net |-> ZeroNet,
   audit |-> 0]

\* ------------------------------------------------------------ CartManager
\* Cart.ttl_hours, cart_manager.py:62
cart_ttl_hours == 24

\* no cart of the conversation (not cached, not persisted)
NoCart == [exists |-> FALSE, items |-> <<>>, created_at |-> 0]

NoAdd == [quantity |-> 0, replaced |-> FALSE]

\* CartManager.__init__, cart_manager.py:127-128, and an empty carts
\* collection
CartInit ==
  /\ carts = NoCart
  /\ db_carts = NoCart
  /\ last_add = [x \in Products |-> NoAdd]

\* Cart.is_expired, cart_manager.py:80-83
is_expired(cart, t) == t > cart.created_at + cart_ttl_hours

\* get_or_create_cart, cart_manager.py:131-186: the cached cart unless it
\* has expired, else the persisted cart unless it has expired (an expired
\* one is deleted), else a new cart, which is cached and persisted
get_or_create_cart(cache, db, t) ==
  LET fresh == [exists |-> TRUE, items |-> <<>>, created_at |-> t] IN
  IF cache.exists /\ ~is_expired(cache, t) THEN [cart |-> cache, db |-> db]
  ELSE IF db.exists /\ ~is_expired(db, t) THEN [cart |-> db, db |-> db]
  ELSE [cart |-> fresh, db |-> fresh]

\* the line of product_id in the cart, 0 when there is none
LineOf(items, product_id) ==
  IF \E i \in DOMAIN items : items[i].product_id = product_id
    THEN CHOOSE i \in DOMAIN items :
           /\ items[i].product_id = product_id
           /\ \A j \in DOMAIN items : items[j].product_id = product_id => i <= j
    ELSE 0

AddLine_sum(items, product_id, quantity) ==
  IF LineOf(items, product_id) # 0
    THEN [items EXCEPT ![LineOf(items, product_id)].quantity = @ + quantity]
    ELSE Append(items, [product_id |-> product_id, quantity |-> quantity])

\* the loop and the append of add_item, cart_manager.py:216-239
AddLine(items, product_id, quantity) ==
  IF LineOf(items, product_id) # 0
    THEN [items EXCEPT ![LineOf(items, product_id)].quantity = quantity]
    ELSE Append(items, [product_id |-> product_id, quantity |-> quantity])

\* add_item, cart_manager.py:195-243: validation (a quantity that is not
\* positive raises ValueError), get_or_create_cart, the update of the cached
\* cart and _persist_cart, which raises when the store fails (632-646)
add_item(product_id, quantity, persist_ok) ==
  LET g == get_or_create_cart(carts, db_carts, now)
      cart == [g.cart EXCEPT !.items = AddLine(@, product_id, quantity)]
      old == LineOf(g.cart.items, product_id) IN
  IF quantity <= 0
    THEN UNCHANGED cart_vars
    ELSE /\ carts' = cart
         /\ db_carts' = IF persist_ok THEN cart ELSE g.db
         /\ last_add' = [last_add EXCEPT ![product_id] =
              [quantity |-> quantity,
               replaced |-> old # 0 /\ g.cart.items[old].quantity # quantity]]

\* the list comprehension of remove_item, cart_manager.py:268
RemoveLine(items, product_id) ==
  SelectSeq(items, LAMBDA it : it.product_id # product_id)

\* remove_item, cart_manager.py:245-277: the cached cart loses the line at
\* line 268; the test at line 271 compares the length of the list that was
\* just filtered with the length of the same list filtered again, and only
\* when they differ is the cart persisted
remove_item(product_id) ==
  LET g == get_or_create_cart(carts, db_carts, now)
      items == RemoveLine(g.cart.items, product_id)
      cart == [g.cart EXCEPT !.items = items] IN
  /\ carts' = cart
  /\ db_carts' = IF Len(items) # Len(RemoveLine(items, product_id)) THEN cart ELSE g.db
  /\ UNCHANGED last_add

\* CartManager.update_quantity, cart_manager.py:279-322: a negative
\* quantity raises ValueError, 0 removes the line, any other quantity is
\* written to the line of the product and the cart is persisted
cart_update_quantity(product_id, new_quantity) ==
  LET g == get_or_create_cart(carts, db_carts, now)
      i == LineOf(g.cart.items, product_id)
      cart == [g.cart EXCEPT !.items[i].quantity = new_quantity] IN
  IF new_quantity < 0 THEN UNCHANGED cart_vars
  ELSE IF new_quantity = 0 THEN remove_item(product_id)
  ELSE /\ carts' = IF i # 0 THEN cart ELSE g.cart
       /\ db_carts' = IF i # 0 THEN cart ELSE g.db
       /\ UNCHANGED last_add

\* ReminderSystem.__init__, remainder_system.py:76-77
NoJob == [pc |-> "idle", order |-> NoOrder, hour |-> 0, current |-> "none",
          cancelled_at |-> "-"]

ReminderHours == {reminder_intervals[i] : i \in DOMAIN reminder_intervals}

NoMessages ==
  [reminder |-> [o \in Orders |-> [h \in ReminderHours |-> 0]],
   merchant_expiry |-> [o \in Orders |-> 0],
   customer_expiry |-> [o \in Orders |-> 0]]

NoDetached == [merchant |-> [o \in Orders |-> 0], customer |-> [o \in Orders |-> 0]]

\* the _check_loop tasks that start() creates, in the order of creation
LoopIds == 1..MaxLoops

\* ReminderSystem.__init__, remainder_system.py:76-77: _running is False and
\* _task is None (0); no loop task exists and no stop() call is suspended
NoLifecycle ==
  [running |-> FALSE, task |-> 0, made |-> 0,
   loop |-> [l \in LoopIds |-> "none"],
   cancel |-> [l \in LoopIds |-> FALSE],
   stop |-> [c \in Callers |-> 0]]

SchedInit ==
  /\ sched = [running |-> FALSE, loop |-> "none", stopped |-> FALSE,
              cycles |-> 0, current_time |-> 0]
  /\ jobs = [o \in Orders |-> NoJob]
  /\ outbox = NoMessages
  /\ detached = NoDetached
  /\ lifecycle = NoLifecycle

Init ==
  /\ stock \in [Products -> 0..MaxStock]
  /\ stock_movements = <<>>
  /\ \E its \in CartItemSeqs :
       /\ its[1].product_id = "p1"   \* the products are interchangeable
       /\ orders = [o \in Orders |-> IF o = "o1" THEN NewOrder(its) ELSE NoOrder]
  /\ locks = [x \in Products |-> <<>>]
  /\ order_lock = 0
  /\ now = 0
  /\ proc = [p \in Callers |-> IdleProc]
  /\ tasks = [p \in Callers |-> [i \in Slots |-> NoTask]]
  /\ SchedInit
  /\ CartInit

\* A caller that has not been used yet starts an operation; callers are
\* interchangeable, so they are taken in order.
CanCall(p) ==
  /\ proc[p].pc = "idle"
  /\ \A q \in Callers : q < p => proc[q].pc # "idle"

Finish(p, r, m) == [proc EXCEPT ![p].pc = "done", ![p].ret = r, ![p].msg = m]

\* the clock advances
Tick ==
  /\ \E h \in Instants : h > now /\ h <= MaxTime /\ now' = h
  /\ UNCHANGED <<stock, stock_movements, orders, locks, order_lock, proc, tasks>>

\* ------------------------------------------------- update_quantity tasks
\* update_quantity called with (product_id, quantity_change):
\* inventory_manager.py:93-98; a zero change returns True at once.
NewTask(product_id, quantity_change, reason) ==
  IF quantity_change = 0
    THEN [NoTask EXCEPT !.pc = "done", !.product_id = product_id,
                        !.reason = reason, !.ret = "True"]
    ELSE [NoTask EXCEPT !.pc = "acquire", !.product_id = product_id,
                        !.quantity_change = quantity_change, !.reason = reason]

\* a direct caller of update_quantity returns what the task returned
Returned(p, r) ==
  IF proc[p].pc = "uq_wait" THEN Finish(p, r, "-") ELSE proc

get_lock_fresh(registry, product_id) == <<>>

\* _get_lock, inventory_manager.py:32-36: the lock kept in self._locks under
\* the key of the merchant's product. The check and the insertion have no
\* await between them, so creating the lock on first use is one step and
\* the registry is modelled with the lock of every key present and free.
get_lock(registry, product_id) == registry[product_id]

\* async with lock, 1. READ and 2. VALIDATE, inventory_manager.py:100-118
UQ_Acquire(p, i) ==
  LET t == tasks[p][i]
      current_stock == stock[t.product_id] IN
  /\ t.pc = "acquire"
  /\ get_lock(locks, t.product_id) = <<>>
  /\ IF Insufficient(current_stock, t.quantity_change)
       THEN /\ tasks' = [tasks EXCEPT ![p][i] =
                         IF proc[p].pc = "uq_wait" THEN NoTask
                         ELSE [t EXCEPT !.pc = "done", !.ret = "False"]]
            /\ proc' = Returned(p, "False")
            /\ UNCHANGED locks
       ELSE /\ tasks' = [tasks EXCEPT ![p][i].pc = "write",
                                      ![p][i].current_stock = current_stock]
            /\ locks' = [locks EXCEPT ![t.product_id] = <<p, i>>]
            /\ UNCHANGED proc
  /\ UNCHANGED <<stock, stock_movements, orders, order_lock, now>>

\* 3. COMMIT, 4. VERIFY, 5. LOG and the release of the lock,
\* inventory_manager.py:121-146 (a rejected write raises; the except clause
\* at line 144 returns False)
UQ_Write(p, i) ==
  LET t == tasks[p][i]
      final_stock == final_stock_of(t.current_stock, t.quantity_change)
      written == update_product_stock(stock, t.product_id, final_stock)
      verified_stock == written[t.product_id]
      ok == ~StockRejected(final_stock) /\ verified_stock = final_stock
      r == IF ok THEN "True" ELSE "False"
      c == Returned(p, r) IN
  /\ t.pc = "write"
  /\ stock' = IF StockRejected(final_stock) THEN stock ELSE written
  /\ stock_movements' =
       IF ok THEN log_stock_movement(stock_movements,
                    [product_id |-> t.product_id, movement_type |-> t.reason,
                     quantity_change |-> t.quantity_change,
                     old_stock |-> t.current_stock, new_stock |-> final_stock])
       ELSE stock_movements
  /\ tasks' = [tasks EXCEPT ![p][i] =
                  IF proc[p].pc = "uq_wait" THEN NoTask
                  ELSE [t EXCEPT !.pc = "done", !.ret = r]]
  /\ proc' = [c EXCEPT ![p].net[t.product_id] =
                @ + (stock[t.product_id] - stock'[t.product_id])]
  /\ locks' = [locks EXCEPT ![t.product_id] = <<>>]
  /\ UNCHANGED <<orders, order_lock, now>>

InventoryTaskStep ==
  \E p \in Callers, i \in Slots : UQ_Acquire(p, i) \/ UQ_Write(p, i)

\* a direct caller of update_quantity returns what the task returned after
\* the store failed under it
ReturnedOnStoreError(p, r) ==
  IF proc[p].pc = "uq_wait" THEN Finish(p, r, "store error") ELSE proc

\* the store fails under 1. READ: db.get_product logs the exception and
\* returns None (db.py:699-730), update_quantity takes the product for
\* missing and returns False, inventory_manager.py:102-106
UQ_ReadFails(p, i) ==
  LET t == tasks[p][i] IN
  /\ t.pc = "acquire"
  /\ get_lock(locks, t.product_id) = <<>>
  /\ tasks' = [tasks EXCEPT ![p][i] =
                  IF proc[p].pc = "uq_wait" THEN NoTask
                  ELSE [t EXCEPT !.pc = "done", !.ret = "False"]]
  /\ proc' = ReturnedOnStoreError(p, "False")
  /\ UNCHANGED <<stock, stock_movements, orders, locks, order_lock, now>>

\* the store fails under 3. COMMIT: db.update_product_stock re-raises
\* (db.py:757-773) and the except clause of update_quantity returns False,
\* inventory_manager.py:121, 144-146
UQ_WriteFails(p, i) ==
  LET t == tasks[p][i] IN
  /\ t.pc = "write"
  /\ tasks' = [tasks EXCEPT ![p][i] =
                  IF proc[p].pc = "uq_wait" THEN NoTask
                  ELSE [t EXCEPT !.pc = "done", !.ret = "False"]]
  /\ proc' = ReturnedOnStoreError(p, "False")
  /\ locks' = [locks EXCEPT ![t.product_id] = <<>>]
  /\ UNCHANGED <<stock, stock_movements, orders, order_lock, now>>

\* the store fails under 4. VERIFY, after the write went through:
\* db.get_product returns None, .get on None raises AttributeError and the
\* except clause returns False, inventory_manager.py:121-125, 144-146
UQ_VerifyFails(p, i) ==
  LET t == tasks[p][i]
      final_stock == final_stock_of(t.current_stock, t.quantity_change)
      c == ReturnedOnStoreError(p, "False") IN
  /\ t.pc = "write"
  /\ stock' = update_product_stock(stock, t.product_id, final_stock)
  /\ tasks' = [tasks EXCEPT ![p][i] =
                  IF proc[p].pc = "uq_wait" THEN NoTask
                  ELSE [t EXCEPT !.pc = "done", !.ret = "False"]]
  /\ proc' = [c EXCEPT ![p].net[t.product_id] =
                @ + (stock[t.product_id] - stock'[t.product_id])]
  /\ locks' = [locks EXCEPT ![t.product_id] = <<>>]
  /\ UNCHANGED <<stock_movements, orders, order_lock, now>>

InventoryStoreFailure ==
  \E p \in Callers, i \in Slots :
    UQ_ReadFails(p, i) \/ UQ_WriteFails(p, i) \/ UQ_VerifyFails(p, i)

\* some store call of some update_quantity never returns
Stalled(product_id) ==
  \E p \in Callers, i \in Slots :
    tasks[p][i].pc = "stalled" /\ tasks[p][i].product_id = product_id

UQ_Stall_release(p, i) ==
  LET t == tasks[p][i] IN
  /\ t.pc = "write"
  /\ \A x \in Products : ~Stalled(x)
  /\ tasks' = [tasks EXCEPT ![p][i].pc = "stalled"]
  /\ locks' = [locks EXCEPT ![t.product_id] = <<>>]
  /\ UNCHANGED <<stock, stock_movements, orders, order_lock, now, proc>>

\* the store call awaited inside `async with lock` never returns
\* (inventory_manager.py:100-121; no timeout wraps it): the coroutine stays
\* at its await with the lock held. One store call stalls in a run.
UQ_Stall(p, i) ==
  LET t == tasks[p][i] IN
  /\ t.pc = "write"
  /\ \A x \in Products : ~Stalled(x)
  /\ tasks' = [tasks EXCEPT ![p][i].pc = "stalled"]
  /\ UNCHANGED <<stock, stock_movements, orders, locks, order_lock, now, proc>>

\* ------------------------------------------- inventory operations (callers)
\* update_quantity called directly (app.py:1244, 1307, 2363)
CallUpdateQuantity(p, product_id, quantity_change) ==
  LET t == NewTask(product_id, quantity_change, "order_update")
      c == [IdleProc EXCEPT !.op = "update_quantity",
              !.items = <<[product_id |-> product_id, quantity |-> quantity_change]>>] IN
  /\ CanCall(p)
  /\ proc' = [proc EXCEPT ![p] =
       IF t.pc = "done"
         THEN [c EXCEPT !.pc = "done", !.ret = t.ret]
         ELSE [c EXCEPT !.pc = "uq_wait"]]
  /\ tasks' = [tasks EXCEPT ![p][1] = t]
  /\ UNCHANGED <<stock, stock_movements, orders, locks, order_lock, now>>

\* deduct_stock, inventory_manager.py:148-152
CallDeductStock(p, product_id, quantity) ==
  LET t == NewTask(product_id, -Abs(quantity), "deduction") IN
  /\ CanCall(p)
  /\ proc' = [proc EXCEPT ![p] =
       IF t.pc = "done"
         THEN [IdleProc EXCEPT !.op = "deduct_stock", !.pc = "done", !.ret = t.ret]
         ELSE [IdleProc EXCEPT !.op = "deduct_stock", !.pc = "uq_wait"]]
  /\ tasks' = [tasks EXCEPT ![p][1] = t]
  /\ UNCHANGED <<stock, stock_movements, orders, locks, order_lock, now>>

\* return_stock, inventory_manager.py:154-158
CallReturnStock(p, product_id, quantity) ==
  LET t == NewTask(product_id, Abs(quantity), "return") IN
  /\ CanCall(p)
  /\ proc' = [proc EXCEPT ![p] =
       IF t.pc = "done"
         THEN [IdleProc EXCEPT !.op = "return_stock", !.pc = "done", !.ret = t.ret]
         ELSE [IdleProc EXCEPT !.op = "return_stock", !.pc = "uq_wait"]]
  /\ tasks' = [tasks EXCEPT ![p][1] = t]
  /\ UNCHANGED <<stock, stock_movements, orders, locks, order_lock, now>>

\* adjust_stock_admin, inventory_manager.py:164-171
CallAdjustStockAdmin(p, product_id, new_stock) ==
  /\ CanCall(p)
  /\ proc' = [proc EXCEPT ![p] =
       [IdleProc EXCEPT !.op = "adjust_stock_admin", !.pc = "adj_acquire",
          !.items = <<[product_id |-> product_id, quantity |-> new_stock]>>]]
  /\ tasks' = [tasks EXCEPT ![p][1] =
                 [NoTask EXCEPT !.pc = "adjust", !.product_id = product_id,
                                !.new_stock = new_stock, !.reason = "manual_adjustment"]]
  /\ UNCHANGED <<stock, stock_movements, orders, locks, order_lock, now>>

\* async with lock and the read of the old stock, inventory_manager.py:173-181
ADJ_Acquire(p) ==
  LET t == tasks[p][1] IN
  /\ proc[p].pc = "adj_acquire"
  /\ get_lock(locks, t.product_id) = <<>>
  /\ locks' = [locks EXCEPT ![t.product_id] = <<p, 1>>]
  /\ tasks' = [tasks EXCEPT ![p][1].current_stock = stock[t.product_id]]
  /\ proc' = [proc EXCEPT ![p].pc = "adj_write"]
  /\ UNCHANGED <<stock, stock_movements, orders, order_lock, now>>

\* 1. COMMIT, 2. VERIFY, 3. LOG MOVEMENT, 4. audit (db has no
\* record_admin_action, so line 208 skips the audit) and the release of the
\* lock, inventory_manager.py:184-215 (a rejected write raises; line 213
\* returns False)
ADJ_Write(p) ==
  LET t == tasks[p][1]
      final_new_stock == final_new_stock_of(t.new_stock)
      written == update_product_stock(stock, t.product_id, final_new_stock)
      ok == ~StockRejected(final_new_stock) /\ written[t.product_id] = final_new_stock
      c == Finish(p, IF ok THEN "True" ELSE "False", "-") IN
  /\ proc[p].pc = "adj_write"
  /\ stock' = IF StockRejected(final_new_stock) THEN stock ELSE written
  /\ stock_movements' =
       IF ok THEN log_stock_movement(stock_movements,
                    [product_id |-> t.product_id, movement_type |-> t.reason,
                     quantity_change |-> final_new_stock - t.current_stock,
                     old_stock |-> t.current_stock, new_stock |-> final_new_stock])
       ELSE stock_movements
  /\ proc' = [c EXCEPT ![p].net[t.product_id] =
                            @ + (stock[t.product_id] - stock'[t.product_id]),
                          ![p].audit = IF ok THEN record_admin_action ELSE 0]
  /\ locks' = [locks EXCEPT ![t.product_id] = <<>>]
  /\ tasks' = [tasks EXCEPT ![p] = NoTasks]
  /\ UNCHANGED <<orders, order_lock, now>>

\* ------------------------------------------------------ batch_deduct_stock
SpawnReturns_debit(p, idxs, its, reason) ==
  [tasks EXCEPT ![p] =
     [i \in Slots |-> IF i \in idxs
                        THEN NewTask(its[i].product_id, -its[i].quantity, reason)
                        ELSE NoTask]]

\* asyncio.gather over update_quantity(+quantity) of the listed line items
SpawnReturns(p, idxs, its, reason) ==
  [tasks EXCEPT ![p] =
     [i \in Slots |-> IF i \in idxs
                        THEN NewTask(its[i].product_id, its[i].quantity, reason)
                        ELSE NoTask]]

Gathered(p) == \A i \in proc[p].rollback : tasks[p][i].pc = "done"

SeqToSet(sq) == {sq[i] : i \in DOMAIN sq}

\* processed_ids and the "Batch stopped" entries, inventory_manager.py:370-373
BatchStopped(results, its) ==
  LET processed_ids == {results[j].product_id : j \in DOMAIN results}
      missing == SelectSeq(its, LAMBDA it : it.product_id \notin processed_ids) IN
  [j \in 1..Len(missing) |->
     [product_id |-> missing[j].product_id, success |-> FALSE, reason |-> "Batch stopped"]]

\* what the caller of batch_deduct_stock does with (success, results):
\* accept_order, order_manager.py:199-214; approve_order_admin, 591-601
BatchReturn(c, success) ==
  CASE c.op = "batch_deduct_stock" ->
         [c EXCEPT !.pc = "done", !.ret = IF success THEN "True" ELSE "False"]
    [] c.op = "accept_order" ->
         IF success THEN [c EXCEPT !.pc = "ao_lock"]
         ELSE [c EXCEPT !.pc = "done", !.ret = "ValueError", !.msg = "deduction failed"]
    [] OTHER ->
         IF success THEN [c EXCEPT !.pc = "ap_lock"]
         ELSE [c EXCEPT !.pc = "done", !.ret = "ValueError", !.msg = "deduction failed"]

\* Phase 1 loop head for item c.k, inventory_manager.py:298-320, and Phase 3,
\* inventory_manager.py:377-379; c is the caller's record on entry.  Line
\* items carry a quantity >= 1 (cart_manager.py:207), so the zero-quantity
\* and invalid-quantity branches are not taken.
BatchLoop(p, c) ==
  IF c.k > Len(c.items)
    THEN /\ proc' = [proc EXCEPT ![p] = BatchReturn(c, TRUE)]
         /\ tasks' = [tasks EXCEPT ![p] = NoTasks]
    ELSE /\ proc' = [proc EXCEPT ![p] = [c EXCEPT !.pc = "bd_wait"]]
         /\ tasks' = [tasks EXCEPT ![p] = [NoTasks EXCEPT ![c.k] =
                        NewTask(c.items[c.k].product_id, -c.items[c.k].quantity,
                                "batch_deduction")]]

\* batch_deduct_stock called directly with a list of line items
CallBatchDeductStock(p, its) ==
  /\ CanCall(p)
  /\ BatchLoop(p, [IdleProc EXCEPT !.op = "batch_deduct_stock", !.items = its, !.k = 1])
  /\ UNCHANGED <<stock, stock_movements, orders, locks, order_lock, now>>

\* result of one deduction, inventory_manager.py:322-333, then the next
\* item or the start of Phase 2, inventory_manager.py:347-363
BD_ItemDone(p) ==
  LET c == proc[p]
      t == tasks[p][c.k]
      failed == Append(c.results, [product_id |-> t.product_id, success |-> FALSE,
                                   reason |-> "Insufficient stock"])
      rb == SeqToSet(c.successful) IN
  /\ c.pc = "bd_wait"
  /\ t.pc = "done"
  /\ IF t.ret = "True"
       THEN BatchLoop(p, [c EXCEPT !.k = c.k + 1,
                            !.successful = Append(c.successful, c.k),
                            !.results = Append(c.results,
                               [product_id |-> t.product_id, success |-> TRUE,
                                reason |-> "-"])])
       ELSE /\ proc' = [proc EXCEPT ![p].pc = "bd_rollback", ![p].results = failed,
                          ![p].rollback = rb]
            /\ tasks' = SpawnReturns(p, rb, c.items, "batch_deduction_rollback")
  /\ UNCHANGED <<stock, stock_movements, orders, locks, order_lock, now>>

\* end of Phase 2, inventory_manager.py:363-375
BD_RolledBack(p) ==
  LET c == proc[p] IN
  /\ c.pc = "bd_rollback"
  /\ Gathered(p)
  /\ proc' = [proc EXCEPT ![p] =
                BatchReturn([c EXCEPT !.rollback = {},
                               !.results = c.results \o BatchStopped(c.results, c.items)],
                            FALSE)]
  /\ tasks' = [tasks EXCEPT ![p] = NoTasks]
  /\ UNCHANGED <<stock, stock_movements, orders, locks, order_lock, now>>

\* ---------------------------------------------------------- accept_order
\* order_manager.py:175 looks _parse_iso_datetime up on self, but it is a
\* module-level function (order_manager.py:799) and OrderManagerV6 has no such
\* attribute: the lookup raises AttributeError inside the try of line 174,
\* the handler of line 181 logs it and re-raises only when the message
\* contains "expired", which this message does not.
self_has_parse_iso_datetime == FALSE

\* the expiry test of order_manager.py:173-183
AcceptSeesExpired(order, t) ==
  self_has_parse_iso_datetime /\ t >= order.expiry_time

AcceptRaceDetected_never(status) == FALSE

\* the re-check inside the lock, order_manager.py:217
AcceptRaceDetected(status) == status # PENDING

CallAcceptOrder(p, order_id, merchant_id) ==
  /\ CanCall(p)
  /\ proc' = [proc EXCEPT ![p] = [IdleProc EXCEPT !.op = "accept_order", !.pc = "ao_read",
                                    !.order_id = order_id, !.merchant_id = merchant_id]]
  /\ UNCHANGED <<stock, stock_movements, orders, locks, order_lock, now, tasks>>

\* Step 1 and Step 2, then the call of batch_deduct_stock (Step 3),
\* order_manager.py:161-197
AO_Read(p) ==
  LET c == [proc[p] EXCEPT !.order = get_order(proc[p].order_id), !.checked_at = now]
      order == c.order IN
  /\ proc[p].pc = "ao_read"
  /\ IF order.merchant_id # c.merchant_id
       THEN /\ proc' = [proc EXCEPT ![p] =
                  [c EXCEPT !.pc = "done", !.ret = "ValueError", !.msg = "unauthorized"]]
            /\ UNCHANGED tasks
     ELSE IF order.status # PENDING
       THEN /\ proc' = [proc EXCEPT ![p] =
                  [c EXCEPT !.pc = "done", !.ret = "ValueError", !.msg = "not pending"]]
            /\ UNCHANGED tasks
     ELSE IF AcceptSeesExpired(order, now)
       THEN /\ proc' = [proc EXCEPT ![p] = [c EXCEPT !.pc = "ex_lock"]]
            /\ UNCHANGED tasks
     ELSE BatchLoop(p, [c EXCEPT !.items = order.items, !.k = 1])
  /\ UNCHANGED <<stock, stock_movements, orders, locks, order_lock, now>>

\* Step 4: async with self._order_lock, the re-read inside the lock and the
\* start of the race branch, order_manager.py:214-230
AO_Lock(p) ==
  LET c == proc[p]
      current_order_state == get_order(c.order_id)
      all == 1..Len(c.items) IN
  /\ c.pc = "ao_lock"
  /\ order_lock = 0
  /\ order_lock' = p
  /\ IF AcceptRaceDetected(current_order_state.status)
       THEN /\ proc' = [proc EXCEPT ![p].pc = "ao_rollback", ![p].rollback = all,
                          ![p].current = current_order_state.status]
            /\ tasks' = SpawnReturns(p, all, c.items, "order_accept_race_condition_rollback")
       ELSE /\ proc' = [proc EXCEPT ![p].pc = "ao_commit",
                          ![p].current = current_order_state.status]
            /\ UNCHANGED tasks
  /\ UNCHANGED <<stock, stock_movements, orders, locks, now>>

\* end of the race branch, order_manager.py:230-231 (the raise releases the
\* lock)
AO_RolledBack(p) ==
  /\ proc[p].pc = "ao_rollback"
  /\ Gathered(p)
  /\ order_lock' = 0
  /\ proc' = [proc EXCEPT ![p].pc = "done", ![p].ret = "ValueError",
                ![p].msg = "state changed", ![p].rollback = {}]
  /\ tasks' = [tasks EXCEPT ![p] = NoTasks]
  /\ UNCHANGED <<stock, stock_movements, orders, locks, now>>

post_acceptance_raises(failed) == IF failed THEN "error" ELSE "success"

\* Step 5 of accept_order: the re-read of the order falls back to the stale
\* document, and the knowledge update and the rule evaluation are each in a
\* try/except that logs a warning, order_manager.py:270-289
post_acceptance(failed) == "success"

\* commit of ACCEPTED, release of the lock and Step 5 (which writes nothing;
\* a collaborator of Step 5 may fail), order_manager.py:234-289
AO_Commit(p) ==
  LET c == proc[p] IN
  /\ c.pc = "ao_commit"
  /\ orders' = update_order(c.order_id, ACCEPTED, TRUE)
  /\ order_lock' = 0
  /\ \E failed \in BOOLEAN :
       proc' = [proc EXCEPT ![p].pc = "done", ![p].ret = post_acceptance(failed),
                  ![p].msg = IF failed THEN "side effect failed" ELSE "-",
                  ![p].committed = TRUE]
  /\ UNCHANGED <<stock, stock_movements, locks, now, tasks>>

\* db.get_order swallows the store's exception and returns None
\* (db.py:557-567); line 217 then calls .get on None, the AttributeError
\* leaves `async with` (the lock is released) and accept_order, and no line
\* returns the stock that Step 3 took
AO_LockReadFails(p) ==
  /\ proc[p].pc = "ao_lock"
  /\ order_lock = 0
  /\ proc' = [proc EXCEPT ![p].pc = "done", ![p].ret = "AttributeError",
                ![p].msg = "NoneType"]
  /\ UNCHANGED <<stock, stock_movements, orders, locks, order_lock, now, tasks>>

\* update_order raises: the stock is returned with the reason
\* order_accept_final_update_failed_rollback, order_manager.py:252-266
AO_CommitFails(p) ==
  LET c == proc[p]
      all == 1..Len(c.items) IN
  /\ c.pc = "ao_commit"
  /\ proc' = [proc EXCEPT ![p].pc = "ao_final_rollback", ![p].rollback = all]
  /\ tasks' = SpawnReturns(p, all, c.items, "order_accept_final_update_failed_rollback")
  /\ UNCHANGED <<stock, stock_movements, orders, locks, order_lock, now>>

\* order_manager.py:266-267
AO_FinalRolledBack(p) ==
  /\ proc[p].pc = "ao_final_rollback"
  /\ Gathered(p)
  /\ order_lock' = 0
  /\ proc' = [proc EXCEPT ![p].pc = "done", ![p].ret = "RuntimeError",
                ![p].msg = "final update failed", ![p].rollback = {}]
  /\ tasks' = [tasks EXCEPT ![p] = NoTasks]
  /\ UNCHANGED <<stock, stock_movements, orders, locks, now>>

\* --------------------------------------------------- approve_order_admin
valid_statuses_wide == OrderStatus

\* order_manager.py:579
valid_statuses == {PENDING, REVIEW}

ApproveRaceDetected_never(status) == FALSE

\* the re-check inside the lock, order_manager.py:604
ApproveRaceDetected(status) == status \notin valid_statuses

CallApproveOrderAdmin(p, order_id) ==
  /\ CanCall(p)
  /\ proc' = [proc EXCEPT ![p] = [IdleProc EXCEPT !.op = "approve_order_admin",
                                    !.pc = "ap_read", !.order_id = order_id]]
  /\ UNCHANGED <<stock, stock_movements, orders, locks, order_lock, now, tasks>>

\* Step 1 and Step 2, then the call of batch_deduct_stock (Step 3),
\* order_manager.py:569-589
AP_Read(p) ==
  LET c == [proc[p] EXCEPT !.order = get_order(proc[p].order_id), !.checked_at = now]
      order == c.order IN
  /\ proc[p].pc = "ap_read"
  /\ IF order.status \notin valid_statuses
       THEN /\ proc' = [proc EXCEPT ![p] =
                  [c EXCEPT !.pc = "done", !.ret = "ValueError", !.msg = "cannot be approved"]]
            /\ UNCHANGED tasks
       ELSE BatchLoop(p, [c EXCEPT !.merchant_id = order.merchant_id,
                                   !.items = order.items, !.k = 1])
  /\ UNCHANGED <<stock, stock_movements, orders, locks, order_lock, now>>

\* Step 4: async with self._order_lock, the re-read inside the lock and the
\* start of the race branch, order_manager.py:601-613
AP_Lock(p) ==
  LET c == proc[p]
      current_order_state == get_order(c.order_id)
      all == 1..Len(c.items) IN
  /\ c.pc = "ap_lock"
  /\ order_lock = 0
  /\ order_lock' = p
  /\ IF ApproveRaceDetected(current_order_state.status)
       THEN /\ proc' = [proc EXCEPT ![p].pc = "ap_rollback", ![p].rollback = all,
                          ![p].current = current_order_state.status]
            /\ tasks' = SpawnReturns(p, all, c.items, "admin_approve_race_condition_rollback")
       ELSE /\ proc' = [proc EXCEPT ![p].pc = "ap_commit",
                          ![p].current = current_order_state.status]
            /\ UNCHANGED tasks
  /\ UNCHANGED <<stock, stock_movements, orders, locks, now>>

\* end of the race branch, order_manager.py:613-614
AP_RolledBack(p) ==
  /\ proc[p].pc = "ap_rollback"
  /\ Gathered(p)
  /\ order_lock' = 0
  /\ proc' = [proc EXCEPT ![p].pc = "done", ![p].ret = "ValueError",
                ![p].msg = "state changed", ![p].rollback = {}]
  /\ tasks' = [tasks EXCEPT ![p] = NoTasks]
  /\ UNCHANGED <<stock, stock_movements, orders, locks, now>>

\* commit of ACCEPTED with approved_by_admin and the admin as the actor of
\* the timeline entry, release of the lock and Step 5 (db has no
\* record_admin_action, so line 654 skips the audit), order_manager.py:617-663
AP_Commit(p) ==
  LET c == proc[p] IN
  /\ c.pc = "ap_commit"
  /\ orders' = [update_order(c.order_id, ACCEPTED, TRUE)
                  EXCEPT ![c.order_id].approved_by_admin = "admin_user"]
  /\ order_lock' = 0
  /\ proc' = [proc EXCEPT ![p].pc = "done", ![p].ret = "success", ![p].committed = TRUE]
  /\ UNCHANGED <<stock, stock_movements, locks, now, tasks>>

\* db.get_order returns None inside the lock: AttributeError at line 604,
\* no rollback
AP_LockReadFails(p) ==
  /\ proc[p].pc = "ap_lock"
  /\ order_lock = 0
  /\ proc' = [proc EXCEPT ![p].pc = "done", ![p].ret = "AttributeError",
                ![p].msg = "NoneType"]
  /\ UNCHANGED <<stock, stock_movements, orders, locks, order_lock, now, tasks>>

\* update_order raises, order_manager.py:635-646
AP_CommitFails(p) ==
  LET c == proc[p]
      all == 1..Len(c.items) IN
  /\ c.pc = "ap_commit"
  /\ proc' = [proc EXCEPT ![p].pc = "ap_final_rollback", ![p].rollback = all]
  /\ tasks' = SpawnReturns(p, all, c.items, "admin_approve_final_update_failed_rollback")
  /\ UNCHANGED <<stock, stock_movements, orders, locks, order_lock, now>>

\* order_manager.py:646-647
AP_FinalRolledBack(p) ==
  /\ proc[p].pc = "ap_final_rollback"
  /\ Gathered(p)
  /\ order_lock' = 0
  /\ proc' = [proc EXCEPT ![p].pc = "done", ![p].ret = "RuntimeError",
                ![p].msg = "final update failed", ![p].rollback = {}]
  /\ tasks' = [tasks EXCEPT ![p] = NoTasks]
  /\ UNCHANGED <<stock, stock_movements, orders, locks, now>>

\* ----------------------------------------------------------- decline_order
CallDeclineOrder(p, order_id, merchant_id) ==
  /\ CanCall(p)
  /\ proc' = [proc EXCEPT ![p] = [IdleProc EXCEPT !.op = "decline_order", !.pc = "dc_lock",
                                    !.order_id = order_id, !.merchant_id = merchant_id]]
  /\ UNCHANGED <<stock, stock_movements, orders, locks, order_lock, now, tasks>>

decline_rejection_any_merchant(order, merchant_id) ==
  IF order.status # PENDING THEN "not pending" ELSE "-"

\* the validation of decline_order, order_manager.py:307-310: the message
\* of the ValueError raised, "-" if none is
decline_rejection(order, merchant_id) ==
  IF order.merchant_id # merchant_id THEN "unauthorized"
  ELSE IF order.status # PENDING THEN "not pending"
  ELSE "-"

\* async with self._order_lock, read and validation, order_manager.py:304-310
DC_Lock(p) ==
  LET c == [proc[p] EXCEPT !.order = get_order(proc[p].order_id),
                           !.current = get_order(proc[p].order_id).status]
      order == c.order
      rejection == decline_rejection(order, c.merchant_id) IN
  /\ proc[p].pc = "dc_lock"
  /\ order_lock = 0
  /\ IF rejection # "-"
       THEN /\ proc' = [proc EXCEPT ![p] =
                  [c EXCEPT !.pc = "done", !.ret = "ValueError", !.msg = rejection]]
            /\ UNCHANGED order_lock
     ELSE /\ proc' = [proc EXCEPT ![p] = [c EXCEPT !.pc = "dc_commit"]]
          /\ order_lock' = p
  /\ UNCHANGED <<stock, stock_movements, orders, locks, now, tasks>>

\* commit of DECLINED; the payload does not name inventory_deducted,
\* order_manager.py:312-326
DC_Commit(p) ==
  LET c == proc[p] IN
  /\ c.pc = "dc_commit"
  /\ orders' = update_order(c.order_id, DECLINED, orders[c.order_id].inventory_deducted)
  /\ order_lock' = 0
  /\ proc' = [proc EXCEPT ![p].pc = "done", ![p].ret = "success", ![p].committed = TRUE]
  /\ UNCHANGED <<stock, stock_movements, locks, now, tasks>>

\* ---------------------------------------------------------- complete_order
CallCompleteOrder(p, order_id, merchant_id) ==
  /\ CanCall(p)
  /\ proc' = [proc EXCEPT ![p] = [IdleProc EXCEPT !.op = "complete_order", !.pc = "cp_lock",
                                    !.order_id = order_id, !.merchant_id = merchant_id]]
  /\ UNCHANGED <<stock, stock_movements, orders, locks, order_lock, now, tasks>>

\* async with self._order_lock, read and validation, order_manager.py:344-350
CP_Lock(p) ==
  LET c == [proc[p] EXCEPT !.order = get_order(proc[p].order_id),
                           !.current = get_order(proc[p].order_id).status]
      order == c.order IN
  /\ proc[p].pc = "cp_lock"
  /\ order_lock = 0
  /\ IF order.merchant_id # c.merchant_id
       THEN /\ proc' = [proc EXCEPT ![p] =
                  [c EXCEPT !.pc = "done", !.ret = "ValueError", !.msg = "unauthorized"]]
            /\ UNCHANGED order_lock
     ELSE IF order.status # ACCEPTED
       THEN /\ proc' = [proc EXCEPT ![p] =
                  [c EXCEPT !.pc = "done", !.ret = "ValueError", !.msg = "cannot be completed"]]
            /\ UNCHANGED order_lock
     ELSE /\ proc' = [proc EXCEPT ![p] = [c EXCEPT !.pc = "cp_commit"]]
          /\ order_lock' = p
  /\ UNCHANGED <<stock, stock_movements, orders, locks, now, tasks>>

\* commit of COMPLETED, order_manager.py:352-366
CP_Commit(p) ==
  LET c == proc[p] IN
  /\ c.pc = "cp_commit"
  /\ orders' = update_order(c.order_id, COMPLETED, orders[c.order_id].inventory_deducted)
  /\ order_lock' = 0
  /\ proc' = [proc EXCEPT ![p].pc = "done", ![p].ret = "success", ![p].committed = TRUE]
  /\ UNCHANGED <<stock, stock_movements, locks, now, tasks>>

\* ------------------------------------------------------------ cancel_order
\* The test applied to the gathered results, order_manager.py:409 and 525:
\* update_quantity returns a bool; for the first result that is not an
\* exception the test evaluates r.get("success"), which raises AttributeError
\* on a bool; the enclosing except (lines 414, 530) logs it and
\* inventory_returned keeps its initial False.  Only a result list without
\* any bool reaches the else branch that sets inventory_returned = True.
returned_ok(rets) == \A r \in rets : r \notin {"True", "False"}

GatheredRets(p) == {tasks[p][i].ret : i \in proc[p].rollback}

\* order_manager.py:390
cancel_closed == {COMPLETED, CANCELLED, EXPIRED}

CallCancelOrder(p, order_id) ==
  /\ CanCall(p)
  /\ proc' = [proc EXCEPT ![p] = [IdleProc EXCEPT !.op = "cancel_order", !.pc = "co_lock",
                                    !.order_id = order_id]]
  /\ UNCHANGED <<stock, stock_movements, orders, locks, order_lock, now, tasks>>

\* async with self._order_lock, read, validation and start of the stock
\* return, order_manager.py:385-408
CO_Lock(p) ==
  LET c == [proc[p] EXCEPT !.order = get_order(proc[p].order_id),
                           !.current = get_order(proc[p].order_id).status]
      order == c.order
      all == 1..Len(order.items) IN
  /\ proc[p].pc = "co_lock"
  /\ order_lock = 0
  /\ IF order.status \in cancel_closed
       THEN /\ proc' = [proc EXCEPT ![p] =
                  [c EXCEPT !.pc = "done", !.ret = "ValueError", !.msg = "cannot be cancelled"]]
            /\ UNCHANGED <<order_lock, tasks>>
     ELSE IF order.inventory_deducted
       THEN /\ proc' = [proc EXCEPT ![p] =
                  [c EXCEPT !.pc = "co_rollback", !.items = order.items, !.rollback = all]]
            /\ tasks' = SpawnReturns(p, all, order.items, "order_cancellation_rollback")
            /\ order_lock' = p
     ELSE /\ proc' = [proc EXCEPT ![p] = [c EXCEPT !.pc = "co_commit", !.items = order.items]]
          /\ order_lock' = p
          /\ UNCHANGED tasks
  /\ UNCHANGED <<stock, stock_movements, orders, locks, now>>

\* the gathered results are tested, order_manager.py:408-415
CO_RolledBack(p) ==
  /\ proc[p].pc = "co_rollback"
  /\ Gathered(p)
  /\ proc' = [proc EXCEPT ![p].pc = "co_commit", ![p].rollback = {},
                ![p].inventory_returned = returned_ok(GatheredRets(p))]
  /\ tasks' = [tasks EXCEPT ![p] = NoTasks]
  /\ UNCHANGED <<stock, stock_movements, orders, locks, order_lock, now>>

CO_Commit_keeps_lock(p) ==
  LET c == proc[p] IN
  /\ c.pc = "co_commit"
  /\ orders' = update_order(c.order_id, CANCELLED,
                  IF c.inventory_returned THEN FALSE ELSE c.order.inventory_deducted)
  /\ proc' = [proc EXCEPT ![p].pc = "done", ![p].ret = "success", ![p].committed = TRUE]
  /\ UNCHANGED <<stock, stock_movements, locks, order_lock, now, tasks>>

\* commit of CANCELLED, order_manager.py:422-445
CO_Commit(p) ==
  LET c == proc[p] IN
  /\ c.pc = "co_commit"
  /\ orders' = update_order(c.order_id, CANCELLED,
                  IF c.inventory_returned THEN FALSE ELSE c.order.inventory_deducted)
  /\ order_lock' = 0
  /\ proc' = [proc EXCEPT ![p].pc = "done", ![p].ret = "success", ![p].committed = TRUE]
  /\ UNCHANGED <<stock, stock_movements, locks, now, tasks>>

\* ------------------------------------------------ force_cancel_order_admin
\* order_manager.py:508
force_cancel_closed == {CANCELLED, COMPLETED}

CallForceCancelOrderAdmin(p, order_id) ==
  /\ CanCall(p)
  /\ proc' = [proc EXCEPT ![p] = [IdleProc EXCEPT !.op = "force_cancel_order_admin",
                                    !.pc = "fc_lock", !.order_id = order_id]]
  /\ UNCHANGED <<stock, stock_movements, orders, locks, order_lock, now, tasks>>

\* async with self._order_lock, read, closed-order return and start of the
\* stock return, order_manager.py:505-524
FC_Lock(p) ==
  LET c == [proc[p] EXCEPT !.order = get_order(proc[p].order_id),
                           !.current = get_order(proc[p].order_id).status]
      order == c.order
      all == 1..Len(order.items) IN
  /\ proc[p].pc = "fc_lock"
  /\ order_lock = 0
  /\ IF order.status \in force_cancel_closed
       THEN /\ proc' = [proc EXCEPT ![p] =
                  [c EXCEPT !.pc = "done", !.ret = "success", !.msg = "already closed"]]
            /\ UNCHANGED <<order_lock, tasks>>
     ELSE IF order.inventory_deducted
       THEN /\ proc' = [proc EXCEPT ![p] =
                  [c EXCEPT !.pc = "fc_rollback", !.items = order.items, !.rollback = all]]
            /\ tasks' = SpawnReturns(p, all, order.items, "admin_forced_cancel_rollback")
            /\ order_lock' = p
     ELSE /\ proc' = [proc EXCEPT ![p] = [c EXCEPT !.pc = "fc_commit", !.items = order.items]]
          /\ order_lock' = p
          /\ UNCHANGED tasks
  /\ UNCHANGED <<stock, stock_movements, orders, locks, now>>

\* the gathered results are tested, order_manager.py:524-531
FC_RolledBack(p) ==
  /\ proc[p].pc = "fc_rollback"
  /\ Gathered(p)
  /\ proc' = [proc EXCEPT ![p].pc = "fc_commit", ![p].rollback = {},
                ![p].inventory_returned = returned_ok(GatheredRets(p))]
  /\ tasks' = [tasks EXCEPT ![p] = NoTasks]
  /\ UNCHANGED <<stock, stock_movements, orders, locks, order_lock, now>>

\* commit of CANCELLED; inventory_deducted is written only when
\* inventory_returned (the audit of line 555 is skipped: db has no
\* record_admin_action), order_manager.py:534-558
FC_Commit(p) ==
  LET c == proc[p] IN
  /\ c.pc = "fc_commit"
  /\ orders' = update_order(c.order_id, CANCELLED,
                  IF c.inventory_returned THEN FALSE
                  ELSE orders[c.order_id].inventory_deducted)
  /\ order_lock' = 0
  /\ proc' = [proc EXCEPT ![p].pc = "done", ![p].ret = "success", ![p].committed = TRUE]
  /\ UNCHANGED <<stock, stock_movements, locks, now, tasks>>

\* ------------------------------------------------------------ expire_order
valid_pending_statuses_wide == {PENDING, "pending_confirmation", EXPIRED}

\* order_manager.py:462
valid_pending_statuses == {PENDING, "pending_confirmation"}

\* what the caller of expire_order does with its result: accept_order
\* raises "has expired" whatever it was (order_manager.py:178-180)
ExpireReturn(c, note) ==
  IF c.op = "accept_order"
    THEN [c EXCEPT !.pc = "done", !.ret = "ValueError", !.msg = "expired"]
    ELSE [c EXCEPT !.pc = "done", !.ret = "success", !.msg = note]

CallExpireOrder(p, order_id) ==
  /\ CanCall(p)
  /\ proc' = [proc EXCEPT ![p] = [IdleProc EXCEPT !.op = "expire_order", !.pc = "ex_lock",
                                    !.order_id = order_id]]
  /\ UNCHANGED <<stock, stock_movements, orders, locks, order_lock, now, tasks>>

\* async with self._order_lock, read and the no-op return for a non-pending
\* order, order_manager.py:457-467
EX_Lock(p) ==
  LET c == [proc[p] EXCEPT !.current = get_order(proc[p].order_id).status] IN
  /\ proc[p].pc = "ex_lock"
  /\ order_lock = 0
  /\ IF c.current \notin valid_pending_statuses
       THEN /\ proc' = [proc EXCEPT ![p] = ExpireReturn(c, "not pending")]
            /\ UNCHANGED order_lock
       ELSE /\ proc' = [proc EXCEPT ![p] = [c EXCEPT !.pc = "ex_commit"]]
            /\ order_lock' = p
  /\ UNCHANGED <<stock, stock_movements, orders, locks, now, tasks>>

\* commit of EXPIRED, order_manager.py:469-483
EX_Commit(p) ==
  LET c == proc[p] IN
  /\ c.pc = "ex_commit"
  /\ orders' = update_order(c.order_id, EXPIRED, orders[c.order_id].inventory_deducted)
  /\ order_lock' = 0
  /\ proc' = [proc EXCEPT ![p] = ExpireReturn([c EXCEPT !.committed = TRUE], "-")]
  /\ UNCHANGED <<stock, stock_movements, locks, now, tasks>>

\* ------------------------------------------------------------ ReminderSystem
\* a document whose sent_reminders field holds null: `interval_hours not in
\* sent_reminders` raises TypeError, remainder_system.py:272-277
null == {-1}

\* holder of _order_lock when a job of the scheduler is inside expire_order
JobId(o) == IF o = "o1" THEN 11 ELSE 12

pending_statuses_all == OrderStatus

\* order_manager.py:725
pending_statuses == {PENDING, "pending_confirmation"}

\* get_pending_orders_for_expiry_check, order_manager.py:721-729 and
\* db.py:643-657
get_pending_orders_for_expiry_check ==
  {o \in Orders : orders[o].status \in pending_statuses}

\* the intervals the loop of remainder_system.py:276-279 looks at before it
\* stops: `hours_elapsed >= interval_hours` is evaluated first
DueHours(order, t) == {h \in ReminderHours : t - order.created_at >= h}

\* next_reminder_hour, remainder_system.py:275-279 (0 stands for None)
next_reminder_hour(order, t) ==
  LET unsent == {h \in DueHours(order, t) : h \notin order.sent_reminders} IN
  IF unsent = {} THEN 0
  ELSE CHOOSE h \in unsent : \A g \in unsent : h <= g

\* _process_single_order up to its first await: expiry first
\* (remainder_system.py:245-248), then the reminder that is due
\* (remainder_system.py:271-284); a TypeError leaves through line 209
StartJob(order, t) ==
  LET j == [NoJob EXCEPT !.order = order] IN
  IF t >= order.expiry_time THEN [j EXCEPT !.pc = "expire"]
  ELSE IF DueHours(order, t) # {} /\ order.sent_reminders = null
    THEN [j EXCEPT !.pc = "failed"]
  ELSE IF next_reminder_hour(order, t) # 0
    THEN [j EXCEPT !.pc = "send", !.hour = next_reminder_hour(order, t)]
  ELSE [j EXCEPT !.pc = "done"]

\* start(), remainder_system.py:95-106; the application starts the scheduler
\* once, app.py:390
Start ==
  /\ ~sched.running
  /\ sched.loop = "none"
  /\ sched' = [sched EXCEPT !.running = TRUE, !.loop = "check"]
  /\ UNCHANGED <<stock, stock_movements, orders, locks, order_lock, now, proc, tasks,
                 jobs, outbox, detached>>

\* one pass of `while self._running` up to the gather:
\* _check_all_pending_orders, remainder_system.py:132-135 and 155-180
SC_Check ==
  LET pending_orders == get_pending_orders_for_expiry_check IN
  /\ sched.loop = "check"
  /\ sched.running
  /\ sched.cycles < MaxCycles
  /\ IF pending_orders = {}
       THEN /\ sched' = [sched EXCEPT !.loop = "sleep", !.cycles = @ + 1,
                                      !.current_time = now]
            /\ UNCHANGED jobs
       ELSE /\ sched' = [sched EXCEPT !.loop = "gather", !.cycles = @ + 1,
                                      !.current_time = now]
            /\ jobs' = [o \in Orders |->
                          IF o \in pending_orders THEN StartJob(orders[o], now)
                          ELSE NoJob]
  /\ UNCHANGED <<stock, stock_movements, orders, locks, order_lock, now, proc, tasks,
                 outbox, detached>>

JobSettled_strict(pc) == pc \in {"idle", "done"}

\* a job that asyncio.gather(..., return_exceptions=True) counts as finished,
\* remainder_system.py:180-184
JobSettled(pc) == pc \in {"idle", "done", "failed"}

\* the gather returns and the loop goes to sleep, remainder_system.py:180-148
SC_Gathered ==
  /\ sched.loop = "gather"
  /\ \A o \in Orders : JobSettled(jobs[o].pc)
  /\ sched' = [sched EXCEPT !.loop = "sleep"]
  /\ jobs' = [o \in Orders |-> NoJob]
  /\ UNCHANGED <<stock, stock_movements, orders, locks, order_lock, now, proc, tasks,
                 outbox, detached>>

\* asyncio.sleep(self.check_interval) returns, remainder_system.py:146-148
SC_Wake ==
  /\ sched.loop = "sleep"
  /\ sched' = [sched EXCEPT !.loop = "check"]
  /\ UNCHANGED <<stock, stock_movements, orders, locks, order_lock, now, proc, tasks,
                 jobs, outbox, detached>>

\* the two notification tasks of _expire_order, remainder_system.py:419-422
SpawnNotifications(o) ==
  [detached EXCEPT !.merchant[o] = @ + 1, !.customer[o] = @ + 1]

\* _expire_order calls expire_order: async with self._order_lock, read and
\* the return of a non-pending order as it is, which _expire_order takes for
\* an expired one (order_manager.py:457-467, remainder_system.py:407-422)
J_ExpireLock(o) ==
  LET current_status == get_order(o).status IN
  /\ jobs[o].pc = "expire"
  /\ order_lock = 0
  /\ IF current_status \notin valid_pending_statuses
       THEN /\ jobs' = [jobs EXCEPT ![o].pc = "done", ![o].current = current_status]
            /\ detached' = SpawnNotifications(o)
            /\ UNCHANGED order_lock
       ELSE /\ jobs' = [jobs EXCEPT ![o].pc = "expire_commit",
                                    ![o].current = current_status]
            /\ order_lock' = JobId(o)
            /\ UNCHANGED detached
  /\ UNCHANGED <<stock, stock_movements, orders, locks, now, proc, tasks, sched, outbox>>

\* commit of EXPIRED and the notification tasks, order_manager.py:469-483
\* and remainder_system.py:416-422
J_ExpireCommit(o) ==
  /\ jobs[o].pc = "expire_commit"
  /\ orders' = update_order(o, EXPIRED, orders[o].inventory_deducted)
  /\ order_lock' = 0
  /\ jobs' = [jobs EXCEPT ![o].pc = "done"]
  /\ detached' = SpawnNotifications(o)
  /\ UNCHANGED <<stock, stock_movements, locks, now, proc, tasks, sched, outbox>>

\* _send_reminder returns True, remainder_system.py:284 and 313-340
J_Send(o) ==
  /\ jobs[o].pc = "send"
  /\ outbox' = [outbox EXCEPT !.reminder[o][jobs[o].hour] = @ + 1]
  /\ jobs' = [jobs EXCEPT ![o].pc = "record"]
  /\ UNCHANGED <<stock, stock_movements, orders, locks, order_lock, now, proc, tasks,
                 sched, detached>>

\* _send_reminder returns False: no merchant, no phone or a failed send,
\* remainder_system.py:314-326, 342-344 and 297-298
J_SendFails(o) ==
  /\ jobs[o].pc = "send"
  /\ jobs' = [jobs EXCEPT ![o].pc = "done"]
  /\ UNCHANGED <<stock, stock_movements, orders, locks, order_lock, now, proc, tasks,
                 sched, outbox, detached>>

\* update_order(order_id, {"$addToSet": {"sent_reminders": h}}),
\* remainder_system.py:288-294, order_manager.py:63-80, db.py:569-602
J_Record(o) ==
  /\ jobs[o].pc = "record"
  /\ orders' = [orders EXCEPT ![o].sent_reminders = @ \cup {jobs[o].hour}]
  /\ jobs' = [jobs EXCEPT ![o].pc = "done"]
  /\ UNCHANGED <<stock, stock_movements, locks, order_lock, now, proc, tasks,
                 sched, outbox, detached>>

\* the write raises and the exception is logged, remainder_system.py:295-296
J_RecordFails(o) ==
  /\ jobs[o].pc = "record"
  /\ jobs' = [jobs EXCEPT ![o].pc = "done"]
  /\ UNCHANGED <<stock, stock_movements, orders, locks, order_lock, now, proc, tasks,
                 sched, outbox, detached>>

\* _notify_merchant_expiry, remainder_system.py:428-455
N_Merchant(o) ==
  /\ detached.merchant[o] > 0
  /\ detached' = [detached EXCEPT !.merchant[o] = @ - 1]
  /\ outbox' = [outbox EXCEPT !.merchant_expiry[o] = @ + 1]
  /\ UNCHANGED <<stock, stock_movements, orders, locks, order_lock, now, proc, tasks,
                 sched, jobs>>

\* _notify_customer_expiry, remainder_system.py:458-480
N_Customer(o) ==
  /\ detached.customer[o] > 0
  /\ detached' = [detached EXCEPT !.customer[o] = @ - 1]
  /\ outbox' = [outbox EXCEPT !.customer_expiry[o] = @ + 1]
  /\ UNCHANGED <<stock, stock_movements, orders, locks, order_lock, now, proc, tasks,
                 sched, jobs>>

\* a job that CancelledError reaches at its await
JobInFlight(pc) == pc \in {"expire", "expire_commit", "send", "record"}

\* stop(), remainder_system.py:108-126: the loop task is cancelled and
\* awaited; a cancelled gather cancels its unfinished jobs, `async with`
\* releases the order lock, and the loop breaks (lines 137-139, 149-151).
\* Tasks made with create_task are not children of the loop task.
Stop ==
  /\ sched.running
  /\ sched.loop # "none"
  /\ sched' = [sched EXCEPT !.running = FALSE, !.loop = "ended", !.stopped = TRUE]
  /\ jobs' = [o \in Orders |->
                IF JobInFlight(jobs[o].pc)
                  THEN [jobs[o] EXCEPT !.pc = "cancelled", !.cancelled_at = jobs[o].pc]
                  ELSE jobs[o]]
  /\ order_lock' = IF \E o \in Orders : order_lock = JobId(o) THEN 0 ELSE order_lock
  /\ UNCHANGED <<stock, stock_movements, orders, locks, now, proc, tasks, outbox, detached>>

\* ------------------------------------------------------------ specification
InventoryCall ==
  \E p \in Callers, x \in Products :
    \/ \E d \in (-MaxQty)..MaxQty : CallUpdateQuantity(p, x, d)
    \/ \E q \in {-1, 1} : CallDeductStock(p, x, q)
    \/ \E q \in {-1, 1} : CallReturnStock(p, x, q)
    \/ \E n \in (-1)..MaxStock : CallAdjustStockAdmin(p, x, n)

BatchCall == \E p \in Callers, its \in ItemSeqs : CallBatchDeductStock(p, its)

OrderCall ==
  \E p \in Callers, o \in {oo \in Orders : orders[oo] # NoOrder} :
    \/ \E m \in Merchants : CallAcceptOrder(p, o, m)
    \/ \E m \in Merchants : CallDeclineOrder(p, o, m)
    \/ \E m \in Merchants : CallCompleteOrder(p, o, m)
    \/ CallApproveOrderAdmin(p, o)
    \/ CallCancelOrder(p, o)
    \/ CallForceCancelOrderAdmin(p, o)
    \/ CallExpireOrder(p, o)

InventoryStep ==
  \E p \in Callers :
    \/ ADJ_Acquire(p) \/ ADJ_Write(p)
    \/ BD_ItemDone(p) \/ BD_RolledBack(p)

OrderStep ==
  \E p \in Callers :
    \/ AO_Read(p) \/ AO_Lock(p) \/ AO_Commit(p)
    \/ AP_Read(p) \/ AP_Lock(p) \/ AP_Commit(p)
    \/ DC_Lock(p) \/ DC_Commit(p)
    \/ CP_Lock(p) \/ CP_Commit(p)
    \/ CO_Lock(p) \/ CO_RolledBack(p) \/ CO_Commit(p)
    \/ FC_Lock(p) \/ FC_RolledBack(p) \/ FC_Commit(p)
    \/ EX_Lock(p) \/ EX_Commit(p)

\* the race branches of accept_order and approve_order_admin: taken only
\* when another coroutine changed the status during the batch deduction
OrderRaceStep ==
  \E p \in Callers : AO_RolledBack(p) \/ AP_RolledBack(p)

\* The callers run concurrently.  batch_deduct_stock runs inside
\* accept_order and approve_order_admin (order_manager.py:193, 585), its
\* only callers.
Next ==
  \/ InventoryCall /\ UNCHANGED <<sched_vars, cart_vars>>
  \/ OrderCall /\ UNCHANGED <<sched_vars, cart_vars>>
  \/ InventoryTaskStep /\ UNCHANGED <<sched_vars, cart_vars>>
  \/ InventoryStep /\ UNCHANGED <<sched_vars, cart_vars>>
  \/ OrderStep /\ UNCHANGED <<sched_vars, cart_vars>>
  \/ OrderRaceStep /\ UNCHANGED <<sched_vars, cart_vars>>

Spec == Init /\ [][Next]_vars

\* The store fails under accept_order and approve_order_admin: the re-read
\* inside the lock returns no document, or the commit raises.
StoreFailure ==
  \E p \in Callers :
    \/ AO_LockReadFails(p) \/ AO_CommitFails(p) \/ AO_FinalRolledBack(p)
    \/ AP_LockReadFails(p) \/ AP_CommitFails(p) \/ AP_FinalRolledBack(p)

NextFail ==
  \/ Next
  \/ StoreFailure /\ UNCHANGED <<sched_vars, cart_vars>>

SpecFail == Init /\ [][NextFail]_vars

\* The inventory engine on its own, called by one caller after the other,
\* with a store that may fail under any read or write of update_quantity.
NextStore ==
  \/ (\A q \in Callers : proc[q].pc \in {"idle", "done"})
       /\ InventoryCall /\ UNCHANGED <<sched_vars, cart_vars>>
  \/ (\A q \in Callers : proc[q].pc \in {"idle", "done"})
       /\ BatchCall /\ UNCHANGED <<sched_vars, cart_vars>>
  \/ InventoryTaskStep /\ UNCHANGED <<sched_vars, cart_vars>>
  \/ InventoryStep /\ UNCHANGED <<sched_vars, cart_vars>>
  \/ InventoryStoreFailure /\ UNCHANGED <<sched_vars, cart_vars>>

SpecStore == Init /\ [][NextStore]_vars

\* The order documents the state machine leaves behind: the status, the
\* inventory_deducted flag and the timeline written by accept_order
\* (order_manager.py:234-248), decline_order (312-321), complete_order
\* (352-361), cancel_order (422-437; the flag stays true after ACCEPTED
\* because the test of the gathered results at line 409 raises) and
\* expire_order (469-478).
PriorOrders(its) ==
  {[NewOrder(its) EXCEPT !.status = tl[Len(tl)], !.inventory_deducted = d,
                         !.timeline = tl] :
     tl \in {<<PENDING>>, <<PENDING, DECLINED>>, <<PENDING, CANCELLED>>,
             <<PENDING, EXPIRED>>},
     d \in {FALSE}}
  \cup
  {[NewOrder(its) EXCEPT !.status = tl[Len(tl)], !.inventory_deducted = d,
                         !.timeline = tl] :
     tl \in {<<PENDING, ACCEPTED>>, <<PENDING, ACCEPTED, COMPLETED>>,
             <<PENDING, ACCEPTED, CANCELLED>>},
     d \in {TRUE}}

\* Two orders of the merchant in the same state, with the same line items.
InitCancel ==
  /\ stock \in [Products -> 0..MaxStock]
  /\ stock_movements = <<>>
  /\ \E its \in CartItemSeqs : \E doc \in PriorOrders(its) :
       orders = [o \in Orders |-> doc]
  /\ locks = [x \in Products |-> <<>>]
  /\ order_lock = 0
  /\ now = 0
  /\ proc = [p \in Callers |-> IdleProc]
  /\ tasks = [p \in Callers |-> [i \in Slots |-> NoTask]]
  /\ SchedInit
  /\ CartInit

CancelCall ==
  \E p \in Callers :
    \/ CallCancelOrder(p, "o1")
    \/ CallForceCancelOrderAdmin(p, "o2")

CancelStep ==
  \E p \in Callers :
    \/ CO_Lock(p) \/ CO_RolledBack(p) \/ CO_Commit(p)
    \/ FC_Lock(p) \/ FC_RolledBack(p) \/ FC_Commit(p)

\* cancel_order runs on the first order and force_cancel_order_admin on
\* the second, concurrently.
NextCancel ==
  \/ CancelCall /\ UNCHANGED <<sched_vars, cart_vars>>
  \/ CancelStep /\ UNCHANGED <<sched_vars, cart_vars>>
  \/ InventoryTaskStep /\ UNCHANGED <<sched_vars, cart_vars>>

SpecCancel == InitCancel /\ [][NextCancel]_vars

\* An order that was accepted: its stock is deducted
AcceptedOrder(its) ==
  [NewOrder(its) EXCEPT !.status = ACCEPTED, !.inventory_deducted = TRUE,
                        !.timeline = <<PENDING, ACCEPTED>>]

\* Two orders of the merchant, one line each: o1 is PENDING, o2 is PENDING
\* or ACCEPTED.
InitStall ==
  /\ stock \in [Products -> {0, MaxStock}]
  /\ stock_movements = <<>>
  /\ \E x \in Products, acc \in BOOLEAN :
       LET its == <<[product_id |-> x, quantity |-> 1]>> IN
       orders = [o \in Orders |->
                   IF o = "o1" THEN NewOrder(<<[product_id |-> "p1", quantity |-> 1]>>)
                   ELSE IF acc THEN AcceptedOrder(its) ELSE NewOrder(its)]
  /\ locks = [x \in Products |-> <<>>]
  /\ order_lock = 0
  /\ now = 0
  /\ proc = [p \in Callers |-> IdleProc]
  /\ tasks = [p \in Callers |-> [i \in Slots |-> NoTask]]
  /\ SchedInit
  /\ CartInit

StallCall ==
  \E p \in Callers :
    \/ \E x \in Products, d \in (-1)..1 : CallUpdateQuantity(p, x, d)
    \/ \E x \in Products, n \in 0..MaxStock : CallAdjustStockAdmin(p, x, n)
    \/ CallAcceptOrder(p, "o1", Owner)
    \/ \E o \in Orders :
         \/ CallDeclineOrder(p, o, Owner)
         \/ CallCompleteOrder(p, o, Owner)
         \/ CallCancelOrder(p, o)
         \/ CallExpireOrder(p, o)

StallOrderStep ==
  \E p \in Callers :
    \/ AO_Read(p) \/ AO_Lock(p) \/ AO_Commit(p) \/ AO_RolledBack(p)
    \/ DC_Lock(p) \/ DC_Commit(p)
    \/ CP_Lock(p) \/ CP_Commit(p)
    \/ CO_Lock(p) \/ CO_RolledBack(p) \/ CO_Commit(p)
    \/ EX_Lock(p) \/ EX_Commit(p)

\* every coroutine that can run does run
Progress ==
  (InventoryTaskStep \/ InventoryStep \/ StallOrderStep) /\ UNCHANGED <<sched_vars, cart_vars>>

NextStall ==
  \/ StallCall /\ UNCHANGED <<sched_vars, cart_vars>>
  \/ Progress
  \/ (\E p \in Callers, i \in Slots : UQ_Stall(p, i)) /\ UNCHANGED <<sched_vars, cart_vars>>

\* The event loop runs every coroutine that is ready; a stalled store call
\* is the only thing that does not return.
SpecStall == InitStall /\ [][NextStall]_vars /\ WF_vars(Progress)

\* every coroutine of a started operation that can run
Running ==
  (InventoryTaskStep \/ InventoryStep \/ OrderStep \/ OrderRaceStep)
    /\ UNCHANGED <<sched_vars, cart_vars>>

\* the calls that take the order lock, a product lock or both
LiveCall ==
  \E p \in Callers :
    \/ \E x \in Products, d \in {-1, 1} : CallUpdateQuantity(p, x, d)
    \/ \E o \in Orders :
         \/ CallAcceptOrder(p, o, Owner)
         \/ CallApproveOrderAdmin(p, o)
         \/ CallDeclineOrder(p, o, Owner)
         \/ CallCompleteOrder(p, o, Owner)
         \/ CallCancelOrder(p, o)
         \/ CallForceCancelOrderAdmin(p, o)
         \/ CallExpireOrder(p, o)

NextLive ==
  \/ LiveCall /\ UNCHANGED <<sched_vars, cart_vars>>
  \/ Running

\* Two orders, the callers run concurrently on a reliable store, and the
\* event loop runs every coroutine that is ready.
SpecLive == InitStall /\ [][NextLive]_vars /\ WF_vars(Running)

\* Two PENDING orders, the first with any line items and the second with
\* one line, accepted or approved concurrently on a reliable store.
InitAccept ==
  /\ stock \in [Products -> 0..MaxStock]
  /\ stock_movements = <<>>
  /\ \E its \in CartItemSeqs, x \in Products :
       /\ its[1].product_id = "p1"
       /\ orders = [o \in Orders |->
                      IF o = "o1" THEN NewOrder(its)
                      ELSE NewOrder(<<[product_id |-> x, quantity |-> 1]>>)]
  /\ locks = [x \in Products |-> <<>>]
  /\ order_lock = 0
  /\ now = 0
  /\ proc = [p \in Callers |-> IdleProc]
  /\ tasks = [p \in Callers |-> [i \in Slots |-> NoTask]]
  /\ SchedInit
  /\ CartInit

AcceptCall ==
  \E p \in Callers, o \in Orders :
    \/ CallAcceptOrder(p, o, Owner)
    \/ CallApproveOrderAdmin(p, o)

NextAccept ==
  \/ AcceptCall /\ UNCHANGED <<sched_vars, cart_vars>>
  \/ Running

SpecAccept == InitAccept /\ [][NextAccept]_vars

\* The callers run one after the other (so the race branches are never
\* entered), batch_deduct_stock is also called on its own with any list of
\* line items, and the clock advances.
Quiet == \A q \in Callers : proc[q].pc \in {"idle", "done"}

NextSeq ==
  \/ Quiet /\ InventoryCall /\ UNCHANGED <<sched_vars, cart_vars>>
  \/ Quiet /\ BatchCall /\ UNCHANGED <<sched_vars, cart_vars>>
  \/ Quiet /\ OrderCall /\ UNCHANGED <<sched_vars, cart_vars>>
  \/ InventoryTaskStep /\ UNCHANGED <<sched_vars, cart_vars>>
  \/ InventoryStep /\ UNCHANGED <<sched_vars, cart_vars>>
  \/ OrderStep /\ UNCHANGED <<sched_vars, cart_vars>>
  \/ Tick /\ now' >= ttl_hours /\ UNCHANGED <<sched_vars, cart_vars>>

SpecSeq == Init /\ [][NextSeq]_vars

\* The scheduler runs over two pending orders of the merchant, created at
\* hour 0; the second one may be a document whose sent_reminders is null.
\* The merchant may decline an order while the scheduler runs.
InitSched ==
  /\ stock = [x \in Products |-> MaxStock]
  /\ stock_movements = <<>>
  /\ \E sr \in {{}, null} :
       orders = [o \in Orders |->
                   IF o = "o1" THEN NewOrder(<<[product_id |-> "p1", quantity |-> 1]>>)
                   ELSE [NewOrder(<<[product_id |-> "p2", quantity |-> 1]>>)
                           EXCEPT !.sent_reminders = sr]]
  /\ locks = [x \in Products |-> <<>>]
  /\ order_lock = 0
  /\ now = 0
  /\ proc = [p \in Callers |-> IdleProc]
  /\ tasks = [p \in Callers |-> [i \in Slots |-> NoTask]]
  /\ SchedInit
  /\ CartInit

SchedulerStep ==
  \/ Start
  \/ SC_Check
  \/ SC_Gathered
  \/ SC_Wake

JobStep ==
  \E o \in Orders :
    \/ J_ExpireLock(o)
    \/ J_ExpireCommit(o)
    \/ J_Send(o)
    \/ J_SendFails(o)
    \/ J_Record(o)
    \/ J_RecordFails(o)

NotifyStep == \E o \in Orders : N_Merchant(o) \/ N_Customer(o)

DeclineStep ==
  \/ \E p \in Callers, o \in Orders : CallDeclineOrder(p, o, Owner)
  \/ \E p \in Callers : DC_Lock(p)
  \/ \E p \in Callers : DC_Commit(p)

NextSched ==
  \/ SchedulerStep /\ UNCHANGED <<cart_vars, lifecycle>>
  \/ JobStep /\ UNCHANGED <<cart_vars, lifecycle>>
  \/ NotifyStep /\ UNCHANGED <<cart_vars, lifecycle>>
  \/ Stop /\ UNCHANGED <<cart_vars, lifecycle>>
  \/ DeclineStep /\ UNCHANGED <<sched_vars, cart_vars>>
  \/ Tick /\ UNCHANGED <<sched_vars, cart_vars>>

SpecSched == InitSched /\ [][NextSched]_vars

\* The scheduler on its own. The event loop runs every task that is ready:
\* the loop task, the jobs and the notification tasks make progress; stop()
\* and the clock are the environment's.
NextSchedAlone ==
  \/ SchedulerStep /\ UNCHANGED <<cart_vars, lifecycle>>
  \/ JobStep /\ UNCHANGED <<cart_vars, lifecycle>>
  \/ NotifyStep /\ UNCHANGED <<cart_vars, lifecycle>>
  \/ Stop /\ UNCHANGED <<cart_vars, lifecycle>>
  \/ Tick /\ UNCHANGED <<sched_vars, cart_vars>>

SpecSchedFair ==
  /\ InitSched /\ [][NextSchedAlone]_vars
  /\ WF_vars((SchedulerStep \/ JobStep \/ NotifyStep) /\ UNCHANGED <<cart_vars, lifecycle>>)

\* ------------------------------------------- start(), stop(), _check_loop
\* start(), remainder_system.py:95-106; it has no await and runs in one
\* step.  When _running is set it returns without a change.
RS_start ==
  LET l == lifecycle.made + 1 IN
  /\ ~lifecycle.running
  /\ lifecycle.made < MaxLoops
  /\ lifecycle' = [lifecycle EXCEPT !.running = TRUE, !.task = l, !.made = l,
                                    !.loop[l] = "created"]

\* stop() up to its await, remainder_system.py:108-118.  When _running is
\* not set or _task is None it returns without a change.  cancel() requests
\* the cancellation of the task; awaiting a task that has finished returns
\* at once (lines 119-126 follow in the same step), awaiting any other task
\* suspends the call on that task.
RS_stop(c) ==
  LET t == lifecycle.task IN
  /\ lifecycle.stop[c] = 0
  /\ lifecycle.running
  /\ t # 0
  /\ lifecycle' =
       IF lifecycle.loop[t] = "ended"
         THEN [lifecycle EXCEPT !.running = FALSE, !.task = 0]
         ELSE [lifecycle EXCEPT !.running = FALSE, !.cancel[t] = TRUE, !.stop[c] = t]

\* stop() after the awaited task has finished, remainder_system.py:119-126
RS_stop_resume(c) ==
  /\ lifecycle.stop[c] # 0
  /\ lifecycle.loop[lifecycle.stop[c]] = "ended"
  /\ lifecycle' = [lifecycle EXCEPT !.task = 0, !.stop[c] = 0]

\* one step of a loop task, remainder_system.py:128-152: a requested
\* cancellation ends the task where it is suspended (137-139, 148-150) or
\* before it ran; otherwise `while self._running` (132) and
\* `if self._running` (146) decide
RS_loop(l) ==
  /\ lifecycle.loop[l] \in {"created", "check", "sleep"}
  /\ lifecycle' = [lifecycle EXCEPT !.loop[l] =
       IF lifecycle.cancel[l] \/ ~lifecycle.running THEN "ended"
       ELSE IF lifecycle.loop[l] = "check" THEN "sleep" ELSE "check"]

NextLifecycle ==
  \/ RS_start /\ UNCHANGED <<stock, stock_movements, orders, locks, order_lock, now,
                              proc, tasks, sched, jobs, outbox, detached, cart_vars>>
  \/ (\E c \in Callers : RS_stop(c))
       /\ UNCHANGED <<stock, stock_movements, orders, locks, order_lock, now,
                      proc, tasks, sched, jobs, outbox, detached, cart_vars>>
  \/ (\E c \in Callers : RS_stop_resume(c))
       /\ UNCHANGED <<stock, stock_movements, orders, locks, order_lock, now,
                      proc, tasks, sched, jobs, outbox, detached, cart_vars>>
  \/ (\E l \in LoopIds : RS_loop(l))
       /\ UNCHANGED <<stock, stock_movements, orders, locks, order_lock, now,
                      proc, tasks, sched, jobs, outbox, detached, cart_vars>>

\* start() and stop() are called in any order, also while a stop() is
\* suspended, and the loop tasks run in between.
SpecLifecycle == InitSched /\ [][NextLifecycle]_vars

\* A conversation adds items to its cart, one call after the other; the
\* process may have left a persisted cart from an earlier run, created one
\* hour before this one started.
InitCart ==
  /\ stock = [x \in Products |-> MaxStock]
  /\ stock_movements = <<>>
  /\ orders = [o \in Orders |-> NoOrder]
  /\ locks = [x \in Products |-> <<>>]
  /\ order_lock = 0
  /\ now = 0
  /\ proc = [p \in Callers |-> IdleProc]
  /\ tasks = [p \in Callers |-> [i \in Slots |-> NoTask]]
  /\ SchedInit
  /\ carts = NoCart
  /\ \E q \in 0..MaxCartQty :
       /\ db_carts = IF q = 0 THEN NoCart
                     ELSE [exists |-> TRUE, created_at |-> -1,
                           items |-> <<[product_id |-> "p1", quantity |-> q]>>]
       /\ last_add = [x \in Products |->
                        IF x = "p1" THEN [NoAdd EXCEPT !.quantity = q] ELSE NoAdd]

CartCall ==
  \E x \in Products, q \in 0..MaxCartQty, persist_ok \in BOOLEAN :
    add_item(x, q, persist_ok)

NextCart ==
  \/ /\ CartCall
     /\ UNCHANGED <<stock, stock_movements, orders, locks, order_lock, now, proc, tasks,
                    sched_vars>>
  \/ Tick /\ UNCHANGED <<sched_vars, cart_vars>>

SpecCart == InitCart /\ [][NextCart]_vars

\* A conversation adds, removes and changes the lines of its cart, one
\* call after the other, and the store takes every write.
CartEditCall ==
  \E x \in Products :
    \/ \E q \in 0..MaxCartQty : add_item(x, q, TRUE)
    \/ remove_item(x)
    \/ \E q \in (-1)..MaxCartQty : cart_update_quantity(x, q)

NextCartEdit ==
  \/ /\ CartEditCall
     /\ UNCHANGED <<stock, stock_movements, orders, locks, order_lock, now, proc, tasks,
                    sched_vars>>
  \/ Tick /\ UNCHANGED <<sched_vars, cart_vars>>

SpecCartEdit == InitCart /\ [][NextCartEdit]_vars

TypeOK ==
  /\ stock \in [Products -> Int]
  /\ order_lock \in {0} \cup Callers \cup {JobId(o) : o \in Orders}
  /\ \A o \in Orders : orders[o].status \in OrderStatus \cup {"none"}

\* ============================================================ properties
RECURSIVE Need(_, _)
\* units of product x requested by the line items its
Need(its, x) ==
  IF its = <<>> THEN 0
  ELSE (IF Head(its).product_id = x THEN Head(its).quantity ELSE 0)
       + Need(Tail(its), x)

Count(sq, v) == Cardinality({i \in DOMAIN sq : sq[i] = v})

Done(p, op) == proc[p].pc = "done" /\ proc[p].op = op

\* caller p has returned and no caller started after it
Latest(p) ==
  /\ proc[p].pc = "done"
  /\ \A q \in Callers : q > p => proc[q].pc = "idle"

\* units taken out of product x by all callers together
NetAll(x) == proc[1].net[x] + proc[2].net[x]

\* the stock of x before caller p started, when p was the only writer since
StockBefore(p, x) == stock[x] + proc[p].net[x]

\* ---------------------------------------------------------------------
\* C1: the stored stock quantity of every product is >= 0 in every
\* reachable state, for any interleaving of the inventory operations and
\* the order operations that call them.
C1_StockNeverNegative == \A x \in Products : stock[x] >= 0

\* two deductions of the same product in flight: one holds the product
\* lock and is about to write 0, the other waits for the lock
C1_Witness ==
  \E p, q \in Callers, i, j \in Slots :
    /\ p # q
    /\ tasks[p][i].pc = "write" /\ tasks[q][j].pc = "acquire"
    /\ tasks[p][i].product_id = tasks[q][j].product_id
    /\ tasks[p][i].quantity_change < 0 /\ tasks[q][j].quantity_change < 0
    /\ tasks[p][i].current_stock + tasks[p][i].quantity_change = 0

\* ---------------------------------------------------------------------
\* C2: when the callers all run accept_order for the same PENDING order of
\* the owning merchant and the stock suffices for the order, exactly one
\* call returns success and the others raise; once all have finished each
\* product's stock is reduced by the order's quantity exactly once, the
\* order is ACCEPTED and its timeline holds exactly one ACCEPTED entry.
AllAccept(o) ==
  \A p \in Callers :
    /\ Done(p, "accept_order")
    /\ proc[p].order_id = o
    /\ proc[p].merchant_id = orders[o].merchant_id

C2_ExactlyOneAcceptSucceeds ==
  \A o \in Orders :
    (/\ AllAccept(o)
     /\ \A x \in Products : stock[x] + NetAll(x) >= Need(orders[o].items, x))
    => /\ Cardinality({p \in Callers : proc[p].ret = "success"}) = 1
       /\ \A p \in Callers : proc[p].ret \in {"success", "ValueError"}
       /\ \A x \in Products : NetAll(x) = Need(orders[o].items, x)
       /\ orders[o].status = ACCEPTED
       /\ Count(orders[o].timeline, ACCEPTED) = 1

\* both calls debited the stock; the loser found the status changed inside
\* the lock and rolled its debits back
C2_Witness ==
  \E o \in Orders, p, q \in Callers :
    /\ AllAccept(o)
    /\ proc[p].ret = "success"
    /\ proc[q].ret = "ValueError" /\ proc[q].msg = "state changed"

\* ---------------------------------------------------------------------
\* C3: at most one operation commits a transition out of PENDING for an
\* order; an accept_order or approve_order_admin that finds the status
\* changed on its re-read inside the order lock fails, has returned every
\* quantity it debited and has not written the order.
PendingOnlyOps ==
  {"accept_order", "approve_order_admin", "decline_order", "expire_order"}

CommitsOutOfPending(o) ==
  {p \in Callers :
     /\ proc[p].order_id = o
     /\ proc[p].committed
     /\ (proc[p].op \in PendingOnlyOps \/ proc[p].current = PENDING)}

LostRace(p) ==
  /\ proc[p].pc = "done"
  /\ proc[p].op \in {"accept_order", "approve_order_admin"}
  /\ proc[p].msg = "state changed"

C3_OneCommitOutOfPending ==
  /\ \A o \in Orders : Cardinality(CommitsOutOfPending(o)) <= 1
  /\ \A p \in Callers :
       LostRace(p) => /\ proc[p].ret = "ValueError"
                      /\ proc[p].net = ZeroNet
                      /\ ~proc[p].committed
                      /\ orders[proc[p].order_id].status # PENDING

\* approve_order_admin debited the stock, lost the race against another
\* operation that committed, and rolled back
C3_Witness ==
  \E p, q \in Callers :
    /\ LostRace(p) /\ proc[p].op = "approve_order_admin"
    /\ Len(proc[p].items) = MaxItems
    /\ q \in CommitsOutOfPending(proc[p].order_id)

\* ---------------------------------------------------------------------
\* C4: in every reachable state an order's inventory_deducted flag is true
\* if and only if the movement log holds a net-positive debit for the
\* order's items that no equal-and-opposite return has matched.
OrderMovements ==
  {"batch_deduction", "batch_deduction_rollback",
   "order_accept_race_condition_rollback", "admin_approve_race_condition_rollback",
   "order_cancellation_rollback", "admin_forced_cancel_rollback"}

RECURSIVE LoggedDebit(_, _)
\* units of product x debited and not returned, according to the log
LoggedDebit(log, x) ==
  IF log = <<>> THEN 0
  ELSE (IF Head(log).product_id = x /\ Head(log).movement_type \in OrderMovements
          THEN -Head(log).quantity_change ELSE 0)
       + LoggedDebit(Tail(log), x)

C4_FlagMatchesMovementLog ==
  \A o \in Orders :
    orders[o].inventory_deducted <=>
      \E i \in DOMAIN orders[o].items :
        LoggedDebit(stock_movements, orders[o].items[i].product_id) > 0

\* ---------------------------------------------------------------------
\* C5: every committed status change is one of the legal transitions, so
\* an order that is COMPLETED, DECLINED, CANCELLED or EXPIRED never changes
\* status again.
LegalTransitions ==
  {<<PENDING, ACCEPTED>>, <<ACCEPTED, COMPLETED>>, <<PENDING, DECLINED>>,
   <<PENDING, CANCELLED>>, <<ACCEPTED, CANCELLED>>, <<PENDING, EXPIRED>>,
   <<REVIEW, ACCEPTED>>}

C5_OnlyLegalTransitions ==
  [][\A o \in Orders :
       orders'[o].status # orders[o].status =>
         <<orders[o].status, orders'[o].status>> \in LegalTransitions]_vars

\* ---------------------------------------------------------------------
\* C6: cancel_order on an ACCEPTED order whose stock was deducted adds each
\* line item's quantity back to its product, sets the status to CANCELLED
\* and sets inventory_deducted to false.
C6_CancelReturnsStockAndClearsFlag ==
  \A p \in Callers :
    (/\ Latest(p) /\ proc[p].op = "cancel_order"
     /\ proc[p].order.status = ACCEPTED
     /\ proc[p].order.inventory_deducted
     /\ Len(proc[p].order.items) >= 1)
    => /\ \A x \in Products : proc[p].net[x] = -Need(proc[p].order.items, x)
       /\ orders[proc[p].order_id].status = CANCELLED
       /\ ~orders[proc[p].order_id].inventory_deducted

\* ---------------------------------------------------------------------
\* C7: accept_order on a PENDING order whose expiry time is at or before
\* the current time fails with a validation error; the order ends EXPIRED
\* and no stock is debited.
C7_AcceptExpiredOrderFails ==
  \A p \in Callers :
    (/\ Latest(p) /\ proc[p].op = "accept_order"
     /\ proc[p].merchant_id = proc[p].order.merchant_id
     /\ proc[p].order.status = PENDING
     /\ proc[p].checked_at >= proc[p].order.expiry_time)
    => /\ proc[p].ret = "ValueError"
       /\ orders[proc[p].order_id].status = EXPIRED
       /\ proc[p].net = ZeroNet

\* ---------------------------------------------------------------------
\* C8: accept_order by the owning merchant on a PENDING, non-expired order
\* whose every line item finds enough stock succeeds: each product's stock
\* decreases by exactly the line quantity, the status becomes ACCEPTED,
\* inventory_deducted becomes true and one ACCEPTED timeline entry is
\* appended.
AcceptApplies(p) ==
  /\ Latest(p) /\ proc[p].op = "accept_order"
  /\ proc[p].merchant_id = proc[p].order.merchant_id
  /\ proc[p].order.status = PENDING

C8_AcceptSucceeds ==
  \A p \in Callers :
    (/\ AcceptApplies(p)
     /\ proc[p].checked_at < proc[p].order.expiry_time
     /\ \A i \in DOMAIN proc[p].order.items :
          proc[p].order.items[i].quantity
            <= StockBefore(p, proc[p].order.items[i].product_id))
    => /\ proc[p].ret = "success"
       /\ \A x \in Products : proc[p].net[x] = Need(proc[p].order.items, x)
       /\ orders[proc[p].order_id].status = ACCEPTED
       /\ orders[proc[p].order_id].inventory_deducted
       /\ orders[proc[p].order_id].timeline
            = Append(proc[p].order.timeline, ACCEPTED)

\* an order with MaxItems lines was accepted before it expired
C8_Witness ==
  \E p \in Callers :
    /\ AcceptApplies(p)
    /\ proc[p].checked_at < proc[p].order.expiry_time
    /\ proc[p].ret = "success"
    /\ Len(proc[p].order.items) = MaxItems
    /\ \E x \in Products : proc[p].net[x] > 0 /\ stock[x] > 0

\* ---------------------------------------------------------------------
\* C9: accept_order on a PENDING order where some line item requests more
\* than the product's current stock fails with a validation error;
\* afterwards every product's stock is what it was before the call, the
\* order is still PENDING with inventory_deducted false and its timeline
\* is unchanged.
C9_AcceptInsufficientStockFails ==
  \A p \in Callers :
    (/\ AcceptApplies(p)
     /\ \E i \in DOMAIN proc[p].order.items :
          proc[p].order.items[i].quantity
            > StockBefore(p, proc[p].order.items[i].product_id))
    => /\ proc[p].ret = "ValueError"
       /\ proc[p].net = ZeroNet
       /\ orders[proc[p].order_id].status = PENDING
       /\ ~orders[proc[p].order_id].inventory_deducted
       /\ orders[proc[p].order_id].timeline = proc[p].order.timeline

\* the first line was debited and returned after the second line failed
C9_Witness ==
  \E p \in Callers :
    /\ AcceptApplies(p)
    /\ proc[p].msg = "deduction failed"
    /\ Len(proc[p].successful) >= 1
    /\ stock[proc[p].order.items[1].product_id] > 0

\* ---------------------------------------------------------------------
\* C10: when batch_deduct_stock fails at line item k after debiting items
\* 1..k-1 it returns false with per-item results and, once it has returned,
\* every product holds the quantity it had before the batch started; this
\* also holds when a product appears in more than one line item.
BatchFailed(p) ==
  \/ Done(p, "batch_deduct_stock") /\ proc[p].ret = "False"
  \/ /\ proc[p].pc = "done" /\ proc[p].msg = "deduction failed"
     /\ proc[p].op \in {"accept_order", "approve_order_admin"}

C10_FailedBatchRestoresStock ==
  \A p \in Callers :
    BatchFailed(p) =>
      LET k == Len(proc[p].successful) + 1 IN
      /\ proc[p].net = ZeroNet
      /\ k <= Len(proc[p].items)
      /\ Len(proc[p].results) >= k
      /\ \A j \in 1..(k - 1) : proc[p].results[j].success
      /\ ~proc[p].results[k].success
      /\ proc[p].results[k].product_id = proc[p].items[k].product_id
      /\ Latest(p) =>
           proc[p].items[k].quantity >
             stock[proc[p].items[k].product_id]
               - Need(SubSeq(proc[p].items, 1, k - 1), proc[p].items[k].product_id)

\* a batch with the same product on two lines debited the first line,
\* failed at the second and returned the first
C10_Witness ==
  \E p \in Callers :
    /\ Done(p, "batch_deduct_stock") /\ proc[p].ret = "False"
    /\ Len(proc[p].successful) >= 1
    /\ proc[p].items[1].product_id = proc[p].items[2].product_id
    /\ stock[proc[p].items[1].product_id] > 0

\* ---------------------------------------------------------------------
\* C11: expire_order is idempotent: two or more calls on the same order,
\* sequential or concurrent, produce exactly one transition to EXPIRED and
\* one EXPIRED timeline entry; a call on an order that is no longer pending
\* writes nothing and does not raise.
AllExpire(o) ==
  \A p \in Callers : Done(p, "expire_order") /\ proc[p].order_id = o

C11_ExpireIdempotent ==
  /\ \A o \in Orders : Count(orders[o].timeline, EXPIRED) <= 1
  /\ \A p \in Callers :
       Done(p, "expire_order") =>
         /\ proc[p].ret = "success"
         /\ proc[p].current \notin {PENDING, "pending_confirmation"}
              => ~proc[p].committed
  /\ \A o \in Orders :
       AllExpire(o) =>
         /\ orders[o].status = EXPIRED
         /\ Count(orders[o].timeline, EXPIRED) = 1
         /\ Cardinality({p \in Callers : proc[p].committed}) = 1

\* both callers ran expire_order on the order: one committed EXPIRED, the
\* other found the order no longer pending and returned it unchanged
C11_Witness ==
  \E o \in Orders, p, q \in Callers :
    /\ AllExpire(o)
    /\ proc[p].committed
    /\ ~proc[q].committed /\ proc[q].msg = "not pending"


\* C12: for each pending order, the reminder of each configured offset is
\* sent at most once, however many polling cycles run and whether or not
\* the write that records the reminder succeeds.
C12_EachReminderAtMostOnce ==
  \A o \in Orders, h \in ReminderHours : outbox.reminder[o][h] <= 1

\* expiry notifications to the merchant / the customer that were triggered
\* for order o: tasks created, delivered or not yet
MerchantNotices(o) == detached.merchant[o] + outbox.merchant_expiry[o]

CustomerNotices(o) == detached.customer[o] + outbox.customer_expiry[o]

\* the job of order o ran in a cycle whose time was at or past the expiry
\* time of the order it was given
ExpiryCycle(o) ==
  /\ jobs[o].pc # "idle"
  /\ sched.current_time >= jobs[o].order.expiry_time

\* C13: a cycle run at or past the expiry time of an order that is still
\* PENDING moves it to EXPIRED and triggers exactly one expiry notification
\* to the merchant and one to the customer; a job sends a reminder only in
\* a cycle that is before the expiry time; once the order is EXPIRED no job
\* works on it again and no further notification is triggered.
C13_ExpiryCycle ==
  \A o \in Orders :
    /\ MerchantNotices(o) <= 1
    /\ CustomerNotices(o) <= 1
    /\ jobs[o].pc \in {"send", "record"} => ~ExpiryCycle(o)
    /\ (ExpiryCycle(o) /\ jobs[o].pc = "done" /\ jobs[o].current \in valid_pending_statuses)
         => /\ orders[o].status = EXPIRED
            /\ MerchantNotices(o) = 1
            /\ CustomerNotices(o) = 1
    /\ orders[o].status = EXPIRED
         => /\ ~JobInFlight(jobs[o].pc)
            /\ MerchantNotices(o) = 1
            /\ CustomerNotices(o) = 1

\* an order was expired by one cycle, both notifications were delivered and
\* a later cycle has run
C13_Witness ==
  \E o \in Orders :
    /\ orders[o].status = EXPIRED
    /\ outbox.merchant_expiry[o] = 1
    /\ outbox.customer_expiry[o] = 1
    /\ sched.cycles = MaxCycles
    /\ sched.loop = "sleep"

\* C19: when the job of one order has failed in a cycle, the job of every
\* other order of that cycle still runs to its end, and the loop goes on to
\* the next cycle (unless stop() is called).
C19_FailureIsolated ==
  /\ \A o \in Orders : \A o2 \in Orders \ {o} :
       (jobs[o].pc = "failed" /\ JobInFlight(jobs[o2].pc))
         ~> (jobs[o2].pc = "done" \/ sched.stopped)
  /\ \A c \in 1..(MaxCycles - 1) :
       ((\E o \in Orders : jobs[o].pc = "failed") /\ sched.cycles = c)
         ~> (sched.cycles > c \/ sched.stopped)

\* one job failed, the other one finished, and this is a later cycle
C19_Witness ==
  \E o \in Orders, o2 \in Orders :
    /\ jobs[o].pc = "failed"
    /\ jobs[o2].pc = "done"
    /\ outbox.reminder[o2][reminder_intervals[1]] >= 1
    /\ sched.cycles = MaxCycles

\* C20: when stop() has returned the loop has ended, no job of the
\* scheduler was cancelled on its way (between the lock and the commit of an
\* expiry, before a reminder is sent, or between a sent reminder and its
\* recording) and no expiry notification task is still running.
C20_StopAwaitsWork ==
  sched.stopped =>
    /\ sched.loop = "ended"
    /\ \A o \in Orders :
         /\ jobs[o].pc # "cancelled"
         /\ detached.merchant[o] = 0
         /\ detached.customer[o] = 0

\* C14: an accept_order or approve_order_admin that ended in an error left
\* the stock of every product as it found it and did not commit ACCEPTED,
\* whichever step failed (no write of a rollback fails in this model).
C14_ErrorMeansReverted ==
  \A p \in Callers :
    (proc[p].pc = "done" /\ proc[p].op \in {"accept_order", "approve_order_admin"}
       /\ proc[p].ret # "success")
      => /\ proc[p].net = ZeroNet
         /\ ~proc[p].committed

\* C15: every step that changes the stock of a product is a write of the
\* inventory engine (the lock of the product is held and the step appends
\* an entry to the movement log), and every step that changes an order
\* document is a transition of the state machine (the order lock is held,
\* the status changes and the timeline gets an entry for the new status).
C15_SingleWritePath ==
  [][ /\ \A x \in Products :
           stock'[x] # stock[x]
             => /\ locks[x] # <<>>
                /\ Len(stock_movements') = Len(stock_movements) + 1
      /\ \A o \in Orders :
           orders'[o] # orders[o]
             => /\ order_lock # 0
                /\ orders'[o].status # orders[o].status
                /\ orders'[o].timeline = Append(orders[o].timeline, orders'[o].status)
    ]_vars

\* slot i of caller p is between its stock read and its movement-log append
InWrite(p, i) ==
  \/ tasks[p][i].pc = "write"
  \/ i = 1 /\ proc[p].pc = "adj_write"

\* C16: at most one update_quantity or adjust_stock_admin call is between
\* its stock read and its log append for a product at any time, and every
\* update_quantity call that returned changed the stock by exactly its own
\* delta when it returned true and by nothing when it returned false, so no
\* update is lost whatever the interleaving.
C16_OneWriterNoLostUpdate ==
  /\ \A x \in Products :
       Cardinality({pi \in Callers \X Slots :
                      InWrite(pi[1], pi[2]) /\ tasks[pi[1]][pi[2]].product_id = x}) <= 1
  /\ \A p \in Callers :
       Done(p, "update_quantity") =>
         LET call == proc[p].items[1] IN
         \A x \in Products :
           proc[p].net[x] =
             IF proc[p].ret = "True" /\ x = call.product_id THEN -call.quantity ELSE 0

\* two update_quantity calls on one product: one writes while the other
\* waits for the lock
C16_Witness ==
  \E p \in Callers, q \in Callers :
    /\ proc[p].op = "update_quantity" /\ proc[q].op = "update_quantity"
    /\ tasks[p][1].pc = "write" /\ tasks[q][1].pc = "acquire"
    /\ tasks[p][1].product_id = tasks[q][1].product_id
    /\ tasks[q][1].quantity_change # 0

\* in this step the direct update_quantity or adjust_stock_admin call of
\* caller q on product x returns
CompletesOn(q, x) ==
  /\ proc[q].pc # "done"
  /\ proc'[q].pc = "done"
  /\ proc'[q].op \in {"update_quantity", "adjust_stock_admin"}
  /\ proc'[q].items[1].product_id = x

\* C17 as stated: while a store call of update_quantity on a product is
\* stalled, no update_quantity or adjust_stock_admin call on that product
\* returns.
C17_NoCallOnPairCompletes ==
  [][ \A x \in Products : Stalled(x) => \A q \in Callers : ~CompletesOn(q, x) ]_vars

\* C17 amended: while a store call of update_quantity on a product is
\* stalled the lock of the product stays held, and the only calls on that
\* product that return are update_quantity calls with a zero quantity
\* change (they return before the lock is taken); a call on another
\* product returns.
C17_StalledLockBlocksPair ==
  /\ [][ \A x \in Products :
           Stalled(x) =>
             /\ locks[x] # <<>>
             /\ locks'[x] = locks[x]
             /\ \A q \in Callers :
                  CompletesOn(q, x) =>
                    /\ proc'[q].op = "update_quantity"
                    /\ proc'[q].items[1].quantity = 0 ]_vars
  /\ \A q \in Callers, y \in Products :
       ( /\ \E x \in Products \ {y} : Stalled(x)
         /\ proc[q].pc \in {"uq_wait", "adj_acquire", "adj_write"}
         /\ tasks[q][1].product_id = y )
         ~> (proc[q].pc = "done")

\* a store call is stalled on a product and a later call on the same
\* product waits for the lock
C17_Witness ==
  \E p \in Callers, q \in Callers :
    /\ tasks[p][1].pc = "stalled"
    /\ proc[p].op = "update_quantity"
    /\ proc[q].pc \in {"uq_wait", "adj_acquire"}
    /\ tasks[q][1].product_id = tasks[p][1].product_id

\* caller p is an accept_order whose batch deduction waits on a store call
\* that never returns
AcceptStalled(p) ==
  /\ proc[p].op = "accept_order"
  /\ proc[p].pc = "bd_wait"
  /\ \E i \in Slots : tasks[p][i].pc = "stalled"

\* C18: accept_order does not hold the order lock while its batch deduction
\* runs, and while an accept_order is stalled in its batch deduction a
\* decline_order, complete_order, cancel_order or expire_order on another
\* order returns.
C18_StalledAcceptBlocksNoTransition ==
  /\ [](\A p \in Callers :
          (proc[p].op = "accept_order" /\ proc[p].pc \in {"bd_wait", "bd_rollback"})
            => order_lock # p)
  /\ \A p \in Callers, q \in Callers :
       ( /\ AcceptStalled(p)
         /\ proc[q].op \in {"decline_order", "complete_order", "cancel_order",
                            "expire_order"}
         /\ proc[q].order_id # proc[p].order_id )
         ~> (proc[q].pc = "done")

\* C21: the cart holds at most one line per product, and the quantity of
\* the line is the quantity of the last add_item for that product (replaced,
\* not summed).
C21_OneLinePerProduct ==
  /\ \A i, j \in DOMAIN carts.items :
       i # j => carts.items[i].product_id # carts.items[j].product_id
  /\ \A i \in DOMAIN carts.items :
       carts.items[i].quantity = last_add[carts.items[i].product_id].quantity

\* the cart holds two lines and the last add_item replaced the quantity of
\* a line that was there
C21_Witness ==
  /\ Len(carts.items) = 2
  /\ \E i \in DOMAIN carts.items :
       /\ last_add[carts.items[i].product_id].replaced
       /\ carts.items[i].quantity = MaxCartQty

\* C22: the timeline of an order only grows by appending, its entries never
\* change, every step that changes the status appends exactly one entry
\* carrying the new status in the same write, and the status of an order is
\* the status of its last timeline entry in every reachable state.
C22_TimelineAppendOnly ==
  /\ [](\A o \in Orders :
          orders[o].status # "none"
            => /\ Len(orders[o].timeline) > 0
               /\ orders[o].timeline[Len(orders[o].timeline)] = orders[o].status)
  /\ [][\A o \in Orders :
          IF orders'[o].status = orders[o].status
          THEN orders'[o].timeline = orders[o].timeline
          ELSE orders'[o].timeline = Append(orders[o].timeline, orders'[o].status)
       ]_vars

\* an order went through two committed transitions: its timeline holds the
\* creation entry and one entry for each of them
C22_Witness ==
  \E o \in Orders :
    /\ Len(orders[o].timeline) = 3
    /\ orders[o].timeline[2] = ACCEPTED
    /\ orders[o].status \in {COMPLETED, CANCELLED}

\* C23: when a post-commit side effect of accept_order fails, the call still
\* returns the accepted order: the step that commits ACCEPTED and runs the
\* side effects leaves the order ACCEPTED with inventory_deducted true,
\* changes no stock quantity and no movement-log entry, and the stock the
\* call took stays taken.
C23_SideEffectFailureHarmless ==
  [][\A p \in Callers :
       (proc[p].pc = "ao_commit" /\ proc'[p].pc = "done"
          /\ proc'[p].msg = "side effect failed")
         => /\ proc'[p].ret = "success"
            /\ orders'[proc[p].order_id].status = ACCEPTED
            /\ orders'[proc[p].order_id].inventory_deducted
            /\ stock' = stock
            /\ stock_movements' = stock_movements
            /\ proc'[p].net = proc[p].net
    ]_vars

\* an accept_order call whose side effect failed has returned; its order
\* is ACCEPTED and its stock is debited
C23_Witness ==
  \E p \in Callers :
    /\ proc[p].op = "accept_order"
    /\ proc[p].pc = "done"
    /\ proc[p].msg = "side effect failed"
    /\ proc[p].ret = "success"
    /\ orders[proc[p].order_id].status = ACCEPTED
    /\ \E x \in Products : proc[p].net[x] > 0

\* the update_quantity task in slot i of caller p reads a stock that its
\* negative change would take below zero
ShortOfStock(p, i) ==
  /\ tasks[p][i].pc = "acquire"
  /\ tasks[p][i].quantity_change < 0
  /\ stock[tasks[p][i].product_id] + tasks[p][i].quantity_change < 0

\* C24: an update_quantity call with a negative change that the stock it
\* reads cannot cover returns false without writing: the step leaves every
\* stock quantity and the movement log as they were, and the call has
\* changed nothing since it was made.
C24_InsufficientWritesNothing ==
  [][\A p \in Callers, i \in Slots :
       (ShortOfStock(p, i) /\ tasks'[p][i] # tasks[p][i])
         => /\ stock' = stock
            /\ stock_movements' = stock_movements
            /\ locks' = locks
            /\ tasks'[p][i].pc \in {"idle", "done"}
            /\ tasks'[p][i].pc = "done" => tasks'[p][i].ret = "False"
            /\ proc[p].pc = "uq_wait"
                 => /\ proc'[p].pc = "done"
                    /\ proc'[p].ret = "False"
                    /\ proc'[p].net = ZeroNet
    ]_vars

\* a direct update_quantity call with a negative change returned false
\* while the stock of its product was short of the change
C24_Witness ==
  \E p \in Callers :
    /\ proc[p].op = "update_quantity"
    /\ proc[p].pc = "done"
    /\ proc[p].ret = "False"
    /\ proc[p].items[1].quantity < 0
    /\ stock[proc[p].items[1].product_id] + proc[p].items[1].quantity < 0
    /\ proc[p].net = ZeroNet

\* C25: a direct update_quantity call returns false when the stock is
\* insufficient, returns true only after the verified write (the stock
\* moved by exactly the change), and raises, rather than returning false,
\* when the store failed under its read or its write.
C25_OutcomeMapping ==
  \A p \in Callers :
    (proc[p].op = "update_quantity" /\ proc[p].pc = "done")
      => LET x == proc[p].items[1].product_id
             d == proc[p].items[1].quantity IN
         /\ proc[p].msg = "store error" => proc[p].ret = "raised"
         /\ proc[p].ret = "True" => proc[p].net[x] = -d
         /\ (proc[p].ret = "False" /\ proc[p].msg # "store error")
              => proc[p].net = ZeroNet

\* C26: a batch_deduct_stock call that returned has one result entry per
\* input line item, in the order of the input, also when two line items
\* name the same product; every entry that did not succeed carries a
\* reason, only the first entry that did not succeed was attempted, and a
\* failed batch has returned every quantity it debited.
C26_BatchResultPerLine ==
  \A p \in Callers :
    (proc[p].op = "batch_deduct_stock" /\ proc[p].pc = "done")
      => LET res == proc[p].results
             its == proc[p].items IN
         /\ Len(res) = Len(its)
         /\ \A j \in DOMAIN res :
              /\ j <= Len(its) => res[j].product_id = its[j].product_id
              /\ ~res[j].success => res[j].reason # "-"
              /\ (\E h \in 1..(j - 1) : ~res[h].success)
                   => res[j].reason = "Batch stopped"
         /\ proc[p].ret = "False" => proc[p].net = ZeroNet
         /\ proc[p].ret = "True" => \A j \in DOMAIN res : res[j].success

\* C27: a successful adjust_stock_admin writes under the lock of its
\* product, leaves the stock at max(new value, 0), appends one movement-log
\* entry with the old quantity, the new quantity and delta = new - old,
\* and appends one admin-audit record; every movement-log entry satisfies
\* new = old + delta, whatever update_quantity calls ran in between.
C27_AdminAdjust ==
  /\ [](\A j \in DOMAIN stock_movements :
          stock_movements[j].new_stock
            = stock_movements[j].old_stock + stock_movements[j].quantity_change)
  /\ [][\A p \in Callers :
          (proc[p].pc = "adj_write" /\ proc'[p].pc = "done" /\ proc'[p].ret = "True")
            => LET x == tasks[p][1].product_id
                   n == Len(stock_movements') IN
               /\ locks[x] = <<p, 1>>
               /\ stock'[x] = Max(tasks[p][1].new_stock, 0)
               /\ \A y \in Products \ {x} : stock'[y] = stock[y]
               /\ n = Len(stock_movements) + 1
               /\ stock_movements'[n].product_id = x
               /\ stock_movements'[n].old_stock = stock[x]
               /\ stock_movements'[n].new_stock = stock'[x]
               /\ stock_movements'[n].quantity_change = stock'[x] - stock[x]
               /\ proc'[p].audit = 1
       ]_vars

\* C28: decline_order commits DECLINED only for an order that is PENDING
\* and belongs to the calling merchant, and no step of it changes a stock
\* quantity, the movement log or the inventory_deducted flag of the order;
\* a call on an order in any other status or of another merchant raises a
\* validation error and leaves the order as it was.
C28_DeclineFrame ==
  [][\A p \in Callers :
       (proc[p].op = "decline_order" /\ proc'[p] # proc[p] /\ proc'[p].op = "decline_order")
         => LET o == proc[p].order_id IN
            /\ stock' = stock
            /\ stock_movements' = stock_movements
            /\ tasks'[p] = NoTasks
            /\ proc'[p].net = ZeroNet
            /\ orders'[o].inventory_deducted = orders[o].inventory_deducted
            /\ orders'[o] # orders[o]
                 => /\ orders[o].status = PENDING
                    /\ orders[o].merchant_id = proc[p].merchant_id
                    /\ orders'[o].status = DECLINED
                    /\ proc'[p].ret = "success"
            /\ (proc[p].pc = "dc_lock"
                  /\ (orders[o].status # PENDING
                        \/ orders[o].merchant_id # proc[p].merchant_id))
                 => /\ proc'[p].pc = "done"
                    /\ proc'[p].ret = "ValueError"
                    /\ orders' = orders
    ]_vars

\* one decline_order call was refused for the merchant mismatch with the
\* order still PENDING, and one declined the order
C28_Witness ==
  \E p, q \in Callers :
    /\ proc[p].op = "decline_order" /\ proc[p].pc = "done"
    /\ proc[p].ret = "ValueError" /\ proc[p].msg = "unauthorized"
    /\ proc[p].order.status = PENDING
    /\ proc[q].op = "decline_order" /\ proc[q].pc = "done"
    /\ proc[q].ret = "success"
    /\ orders[proc[q].order_id].status = DECLINED
    /\ ~orders[proc[q].order_id].inventory_deducted

\* C29: force_cancel_order_admin mirrors cancel_order: run on two orders
\* with the same status, the same inventory_deducted flag and the same
\* line items, the two operations agree on whether the order is cancelled
\* and leave the same status and the same flag, and they return the same
\* stock.
C29_ForceCancelMirrorsCancel ==
  \A p \in Callers : \A q \in Callers \ {p} :
    (/\ proc[p].op = "cancel_order" /\ proc[p].pc = "done"
     /\ proc[q].op = "force_cancel_order_admin" /\ proc[q].pc = "done")
      => /\ proc[p].committed <=> proc[q].committed
         /\ orders["o1"].status = orders["o2"].status
         /\ orders["o1"].inventory_deducted = orders["o2"].inventory_deducted
         /\ proc[p].net = proc[q].net

RemindersSent(o) ==
  LET hs == ReminderHours IN
  LET RECURSIVE Sum(_)
      Sum(S) == IF S = {} THEN 0
                ELSE LET h == CHOOSE g \in S : TRUE IN
                     outbox.reminder[o][h] + Sum(S \ {h})
  IN Sum(hs)

\* C31: the job of a pending order sends at most one reminder in a cycle,
\* for the smallest configured offset that is due and not yet recorded for
\* the order; when the job is over, an offset is recorded for the order if
\* and only if its reminder was sent, and the reminders of an order go out
\* in ascending order of their offsets.
C31_NextReminderOnly ==
  \A o \in Orders :
    /\ jobs[o].pc \in {"send", "record"}
         => /\ sched.current_time - orders[o].created_at >= jobs[o].hour
            /\ jobs[o].hour \notin orders[o].sent_reminders
            /\ \A g \in ReminderHours :
                 g < jobs[o].hour => g \in orders[o].sent_reminders
    /\ RemindersSent(o) <= sched.cycles
    /\ \A h \in ReminderHours :
         /\ outbox.reminder[o][h] > 0
              => \A g \in ReminderHours : g < h => outbox.reminder[o][g] > 0
         /\ (~JobInFlight(jobs[o].pc) /\ orders[o].sent_reminders # null)
              => (h \in orders[o].sent_reminders <=> outbox.reminder[o][h] > 0)

\* the operations of the order state machine
OrderOps ==
  {"accept_order", "approve_order_admin", "decline_order", "complete_order",
   "cancel_order", "force_cancel_order_admin", "expire_order"}

\* no operation is in progress and only order operations have run
OrdersQuiescent ==
  \A p \in Callers :
    /\ proc[p].pc \in {"idle", "done"}
    /\ proc[p].op \in OrderOps \cup {"none"}

RECURSIVE HeldBy(_, _)
\* units of product x in the lines of the orders of S that are ACCEPTED or
\* COMPLETED
HeldBy(S, x) ==
  IF S = {} THEN 0
  ELSE LET o == CHOOSE oo \in S : TRUE IN
       (IF orders[o].status \in {ACCEPTED, COMPLETED}
          THEN Need(orders[o].items, x) ELSE 0)
       + HeldBy(S \ {o}, x)

C33_FlagAgreesWithStatus ==
  \A o \in Orders :
    /\ orders[o].status \in {PENDING, REVIEW, DECLINED, EXPIRED}
         => ~orders[o].inventory_deducted
    /\ orders[o].status \in {ACCEPTED, COMPLETED}
         => orders[o].inventory_deducted

\* an order was accepted and then completed, and its flag is true
C33_Witness ==
  \E o \in Orders :
    /\ orders[o].timeline = <<PENDING, ACCEPTED, COMPLETED>>
    /\ orders[o].inventory_deducted

\* the movement-log entries of product x, in the order they were appended
ChainOf(x) == SelectSeq(stock_movements, LAMBDA m : m.product_id = x)

HoldsProductLock(p) ==
  \E x \in Products : locks[x] # <<>> /\ locks[x][1] = p

\* caller p is at `async with self._order_lock` and has not entered yet
AtOrderLock(p) ==
  proc[p].pc \in {"ao_lock", "ap_lock", "dc_lock", "cp_lock", "co_lock", "fc_lock",
                  "ex_lock"}

\* C35: with a reliable store the system is deadlock-free.  No coroutine
\* holds the locks of two products, no caller waits for the order lock
\* while it holds a product lock, a product lock is taken under the order
\* lock only by the stock returns of cancel_order, force_cancel_order_admin
\* and the race branches of accept_order and approve_order_admin, and every
\* operation that was started completes.
C35_DeadlockFree ==
  /\ [](/\ \A x \in Products : \A y \in Products \ {x} :
             locks[x] # <<>> => locks[x] # locks[y]
        /\ \A p \in Callers :
             /\ AtOrderLock(p) => ~HoldsProductLock(p)
             /\ (order_lock = p /\ HoldsProductLock(p))
                  => proc[p].pc \in {"co_rollback", "fc_rollback", "ao_rollback",
                                     "ap_rollback"})
  /\ \A p \in Callers :
       (proc[p].pc \notin {"idle", "done"}) ~> (proc[p].pc = "done")

\* a cancel_order holds the order lock and, under it, the lock of a
\* product whose stock it returns, while another call waits for the order
\* lock
C35_Witness ==
  \E p \in Callers : \E q \in Callers \ {p} :
    /\ order_lock = p
    /\ proc[p].pc = "co_rollback"
    /\ HoldsProductLock(p)
    /\ AtOrderLock(q)

\* C36: an "order expired" notification goes to the merchant or to the
\* customer of an order only while the status of that order is EXPIRED; an
\* order that another transition took out of PENDING between the
\* scheduler's fetch and its expire_order call gets no such notification.
C36_ExpiryNoticeOnlyWhenExpired ==
  [][\A o \in Orders :
       (\/ outbox'.merchant_expiry[o] > outbox.merchant_expiry[o]
        \/ outbox'.customer_expiry[o] > outbox.customer_expiry[o])
         => orders[o].status = EXPIRED]_vars

\* C37: a debit that is rolled back is invisible to other orders.  When
\* every operation has finished and an accept_order or approve_order_admin
\* failed because its deduction failed, the stock that is left does not
\* cover the order it was called on.
C37_RolledBackDebitInvisible ==
  Quiet =>
    \A p \in Callers :
      (/\ proc[p].op \in {"accept_order", "approve_order_admin"}
       /\ proc[p].pc = "done"
       /\ proc[p].msg = "deduction failed")
        => \E x \in Products : stock[x] < Need(orders[proc[p].order_id].items, x)

\* a loop task that has been created, has not finished and has no
\* cancellation requested
ActiveLoop(l) ==
  lifecycle.loop[l] \in {"created", "check", "sleep"} /\ ~lifecycle.cancel[l]

\* C38: under any interleaving of start() and stop() at most one polling
\* loop is active, and once every call has returned the flag and the task
\* handle agree: _running is set exactly when _task is a task, and a loop
\* that is active is the task in _task with _running set, so that the next
\* stop() cancels it.
C38_StartStopAgree ==
  /\ \A l \in LoopIds : \A k \in LoopIds \ {l} : ~(ActiveLoop(l) /\ ActiveLoop(k))
  /\ (\A c \in Callers : lifecycle.stop[c] = 0)
       => /\ lifecycle.running <=> lifecycle.task # 0
          /\ \A l \in LoopIds :
               ActiveLoop(l) => (lifecycle.running /\ lifecycle.task = l)

\* C39: after any sequence of add_item, remove_item and update_quantity
\* calls the cart persisted in the store has the lines of the cart in
\* memory: a product that was removed is not in the persisted cart and so
\* does not come back when the cart is loaded from the store.
C39_PersistedCartEqualsCached ==
  carts.exists => (db_carts.exists /\ db_carts.items = carts.items)

====
